---- MODULE Spec2Model ----
(***************************************************************************)
(* Gearbox catalog Lambda handler (src/lambda/app/app.py).                 *)
(*                                                                         *)
(* Strings are tuples of symbols (each symbol a TLA+ string): data values  *)
(* are spelled letter by letter, fixed message texts are one symbol.       *)
(* Python values are one-field records named after their type, so that a   *)
(* value of one type never equals a value of another:                      *)
(*   [none |-> TRUE]  [bool |-> b]  [int |-> n]  [str |-> s]               *)
(*   [float |-> [m |-> m, e |-> e]]  (the decimal m / 10^e)                *)
(*   [list |-> <<v, ...>>]  [dict |-> << <<key, v>>, ... >>]               *)
(* A dict keeps its keys (TLA+ strings) in insertion order.                *)
(* A DynamoDB item is a function from attribute names to tagged values     *)
(* [S |-> s] or [N |-> s]; the table is a set of items.                    *)
(***************************************************************************)
EXTENDS Integers, Sequences, FiniteSets, TLC

(***************************************************************************)
(* Strings                                                                 *)
(***************************************************************************)
Whitespace == {" ", "\t", "\n"}

RECURSIVE Strip(_)
\* str.strip(): drop leading and trailing whitespace
Strip(s) ==
  IF s = <<>> THEN s
  ELSE IF s[1] \in Whitespace THEN Strip(Tail(s))
  ELSE IF s[Len(s)] \in Whitespace THEN Strip(SubSeq(s, 1, Len(s) - 1))
  ELSE s

\* str.startswith(prefix)
StartsWith(s, prefix) ==
  /\ Len(prefix) <= Len(s)
  /\ SubSeq(s, 1, Len(prefix)) = prefix

Digits == <<"0", "1", "2", "3", "4", "5", "6", "7", "8", "9">>

RECURSIVE NatStr(_)
NatStr(n) == IF n < 10 THEN <<Digits[n + 1]>>
             ELSE NatStr(n \div 10) \o <<Digits[(n % 10) + 1]>>

\* str(n) of a Python int
IntStr(n) == IF n < 0 THEN <<"-">> \o NatStr(0 - n) ELSE NatStr(n)

UpperCase == <<"A", "B", "C", "D", "E", "F", "G", "H", "I", "J", "K", "L", "M",
               "N", "O", "P", "Q", "R", "S", "T", "U", "V", "W", "X", "Y", "Z">>
LowerCase == <<"a", "b", "c", "d", "e", "f", "g", "h", "i", "j", "k", "l", "m",
               "n", "o", "p", "q", "r", "s", "t", "u", "v", "w", "x", "y", "z">>

\* str.lower()
Lower(s) ==
  [n \in 1..Len(s) |->
     IF \E k \in 1..26 : UpperCase[k] = s[n]
     THEN LowerCase[CHOOSE k \in 1..26 : UpperCase[k] = s[n]]
     ELSE s[n]]

\* sub in s
Contains(s, sub) ==
  \E n \in 1..(Len(s) + 1) :
     /\ n + Len(sub) - 1 <= Len(s)
     /\ SubSeq(s, n, n + Len(sub) - 1) = sub

RECURSIVE Pow10(_)
Pow10(e) == IF e = 0 THEN 1 ELSE 10 * Pow10(e - 1)

RECURSIVE DigitsValue(_)
\* the number a tuple of decimal digits spells
DigitsValue(ds) ==
  IF ds = <<>> THEN 0
  ELSE 10 * DigitsValue(SubSeq(ds, 1, Len(ds) - 1))
       + (CHOOSE d \in 0..9 : Digits[d + 1] = ds[Len(ds)])

IsDigits(s) == s # <<>> /\ \A n \in 1..Len(s) : \E d \in 1..10 : Digits[d] = s[n]

\* the digits after an optional sign
Unsigned(t) == IF t # <<>> /\ t[1] = "-" THEN Tail(t) ELSE t

\* the value of a signed tuple of digits
Signed(t, magnitude) == IF t # <<>> /\ t[1] = "-" THEN 0 - magnitude ELSE magnitude

\* int(s) of a stripped string
IntOf(t) ==
  IF IsDigits(Unsigned(t))
  THEN [ok |-> TRUE, val |-> Signed(t, DigitsValue(Unsigned(t)))]
  ELSE [ok |-> FALSE, val |-> 0]

\* int(s) of a string: [ok |-> FALSE] stands for ValueError
ParseInt(s) == IntOf(Strip(s))

RECURSIVE Normalize(_, _)
\* drop the trailing zeros of the fraction
Normalize(m, e) == IF e > 0 /\ m % 10 = 0 THEN Normalize(m \div 10, e - 1)
                   ELSE [m |-> m, e |-> e]

\* the float of a stripped string with its digits before and after the dot
FloatOfParts(t, ip, fp) ==
  IF IsDigits(ip \o fp)
  THEN [ok |-> TRUE, val |-> Normalize(Signed(t, DigitsValue(ip \o fp)), Len(fp))]
  ELSE [ok |-> FALSE, val |-> [m |-> 0, e |-> 0]]

\* the float of a stripped string, unsigned part u, dots at the places dots
FloatOf(t, u, dots) ==
  IF dots = {} THEN FloatOfParts(t, u, <<>>)
  ELSE IF Cardinality(dots) # 1 THEN [ok |-> FALSE, val |-> [m |-> 0, e |-> 0]]
  ELSE FloatOfParts(t, SubSeq(u, 1, (CHOOSE n \in dots : TRUE) - 1),
                    SubSeq(u, (CHOOSE n \in dots : TRUE) + 1, Len(u)))

\* the places of the dots of a string
Dots(u) == {n \in 1..Len(u) : u[n] = "."}

FloatOfStripped(t) == FloatOf(t, Unsigned(t), Dots(Unsigned(t)))

\* float(s) of a decimal string "ddd", "ddd.ddd", ".ddd" or "ddd." with an
\* optional sign: [ok |-> FALSE] stands for ValueError
ParseFloat(s) == FloatOfStripped(Strip(s))

\* a < b for two floats
FloatLess(a, b) == a.m * Pow10(b.e) < b.m * Pow10(a.e)

RECURSIVE PadDigits(_, _)
PadDigits(ds, width) == IF Len(ds) >= width THEN ds ELSE PadDigits(<<"0">> \o ds, width)

\* str(x) of a Python float
FloatStr(f) ==
  (IF f.m < 0 THEN <<"-">> ELSE <<>>)
  \o NatStr((IF f.m < 0 THEN 0 - f.m ELSE f.m) \div Pow10(f.e)) \o <<".">>
  \o (IF f.e = 0 THEN <<"0">>
      ELSE PadDigits(NatStr((IF f.m < 0 THEN 0 - f.m ELSE f.m) % Pow10(f.e)), f.e))

(***************************************************************************)
(* Python values                                                           *)
(***************************************************************************)
PyNone == [none |-> TRUE]
PyBool(b) == [bool |-> b]
PyInt(n) == [int |-> n]
PyStr(s) == [str |-> s]
\* a float is the decimal m / 10^e with the smallest e >= 0
PyFloat(m, e) == [float |-> [m |-> m, e |-> e]]
PyList(xs) == [list |-> xs]
PyDict(kvs) == [dict |-> kvs]

IsNone(v) == "none" \in DOMAIN v
IsBool(v) == "bool" \in DOMAIN v
IsInt(v) == "int" \in DOMAIN v
IsStr(v) == "str" \in DOMAIN v
IsFloat(v) == "float" \in DOMAIN v
IsList(v) == "list" \in DOMAIN v
IsDict(v) == "dict" \in DOMAIN v

\* bool(v): the truth value Python gives v in `not v` and `if v`
Truthy(v) ==
  IF IsNone(v) THEN FALSE
  ELSE IF IsBool(v) THEN v.bool
  ELSE IF IsInt(v) THEN v.int # 0
  ELSE IF IsFloat(v) THEN v.float.m # 0
  ELSE IF IsStr(v) THEN v.str # <<>>
  ELSE IF IsList(v) THEN v.list # <<>>
  ELSE v.dict # <<>>

\* key in d
HasKey(d, k) == \E n \in 1..Len(d.dict) : d.dict[n][1] = k

\* d.get(k, default)
DictGet(d, k, default) ==
  IF HasKey(d, k)
  THEN d.dict[CHOOSE n \in 1..Len(d.dict) : d.dict[n][1] = k][2]
  ELSE default

\* list(d.keys())
DictKeys(d) == [n \in 1..Len(d.dict) |-> d.dict[n][1]]

RECURSIVE Repr(_), ReprItems(_), ReprElements(_)
\* repr(v)
Repr(v) ==
  IF IsNone(v) THEN <<"None">>
  ELSE IF IsBool(v) THEN (IF v.bool THEN <<"True">> ELSE <<"False">>)
  ELSE IF IsInt(v) THEN IntStr(v.int)
  ELSE IF IsFloat(v) THEN FloatStr(v.float)
  ELSE IF IsStr(v) THEN <<"'">> \o v.str \o <<"'">>
  ELSE IF IsList(v) THEN <<"[">> \o ReprElements(v.list) \o <<"]">>
  ELSE <<"{">> \o ReprItems(v.dict) \o <<"}">>

ReprItems(kvs) ==
  IF kvs = <<>> THEN <<>>
  ELSE <<"'", kvs[1][1], "'", ":", " ">> \o Repr(kvs[1][2])
       \o (IF Len(kvs) > 1 THEN <<",", " ">> ELSE <<>>)
       \o ReprItems(Tail(kvs))

ReprElements(xs) ==
  IF xs = <<>> THEN <<>>
  ELSE Repr(xs[1])
       \o (IF Len(xs) > 1 THEN <<",", " ">> ELSE <<>>)
       \o ReprElements(Tail(xs))

\* str(v), also the text an f-string puts for {v}
Str(v) == IF IsStr(v) THEN v.str ELSE Repr(v)

(***************************************************************************)
(* JSON text: a tuple of tokens                                            *)
(*   [punct |-> "{"]  [key |-> "name"]  [strlit |-> s]  [numlit |-> n]     *)
(*   [floatlit |-> [m |-> m, e |-> e]]                                     *)
(*   [word |-> "true" | "false" | "null" | anything else]                  *)
(***************************************************************************)
Punct(c) == [punct |-> c]
IsPunct(tok, c) == "punct" \in DOMAIN tok /\ tok.punct = c

RECURSIVE JsonDumps(_), DumpMembers(_), DumpElements(_)
\* json.dumps(v)
JsonDumps(v) ==
  IF IsNone(v) THEN <<[word |-> "null"]>>
  ELSE IF IsBool(v) THEN <<[word |-> IF v.bool THEN "true" ELSE "false"]>>
  ELSE IF IsInt(v) THEN <<[numlit |-> v.int]>>
  ELSE IF IsFloat(v) THEN <<[floatlit |-> v.float]>>
  ELSE IF IsStr(v) THEN <<[strlit |-> v.str]>>
  ELSE IF IsList(v) THEN <<Punct("[")>> \o DumpElements(v.list) \o <<Punct("]")>>
  ELSE <<Punct("{")>> \o DumpMembers(v.dict) \o <<Punct("}")>>

DumpMembers(kvs) ==
  IF kvs = <<>> THEN <<>>
  ELSE <<[key |-> kvs[1][1]], Punct(":")>> \o JsonDumps(kvs[1][2])
       \o (IF Len(kvs) > 1 THEN <<Punct(",")>> ELSE <<>>)
       \o DumpMembers(Tail(kvs))

DumpElements(xs) ==
  IF xs = <<>> THEN <<>>
  ELSE JsonDumps(xs[1])
       \o (IF Len(xs) > 1 THEN <<Punct(",")>> ELSE <<>>)
       \o DumpElements(Tail(xs))

ParseFail == [ok |-> FALSE, val |-> PyNone, next |-> 0]

RECURSIVE ParseValue(_, _), ParseMembers(_, _, _), ParseElements(_, _, _)
\* one JSON value starting at token p: [ok, val, next]
ParseValue(toks, p) ==
  IF p > Len(toks) THEN ParseFail
  ELSE LET tok == toks[p] IN
    IF "strlit" \in DOMAIN tok THEN [ok |-> TRUE, val |-> PyStr(tok.strlit), next |-> p + 1]
    ELSE IF "numlit" \in DOMAIN tok THEN [ok |-> TRUE, val |-> PyInt(tok.numlit), next |-> p + 1]
    ELSE IF "floatlit" \in DOMAIN tok
    THEN [ok |-> TRUE, val |-> [float |-> tok.floatlit], next |-> p + 1]
    ELSE IF "word" \in DOMAIN tok THEN
      IF tok.word = "null" THEN [ok |-> TRUE, val |-> PyNone, next |-> p + 1]
      ELSE IF tok.word = "true" THEN [ok |-> TRUE, val |-> PyBool(TRUE), next |-> p + 1]
      ELSE IF tok.word = "false" THEN [ok |-> TRUE, val |-> PyBool(FALSE), next |-> p + 1]
      ELSE ParseFail
    ELSE IF IsPunct(tok, "{") THEN
      IF p + 1 <= Len(toks) /\ IsPunct(toks[p + 1], "}")
      THEN [ok |-> TRUE, val |-> PyDict(<<>>), next |-> p + 2]
      ELSE ParseMembers(toks, p + 1, <<>>)
    ELSE IF IsPunct(tok, "[") THEN
      IF p + 1 <= Len(toks) /\ IsPunct(toks[p + 1], "]")
      THEN [ok |-> TRUE, val |-> PyList(<<>>), next |-> p + 2]
      ELSE ParseElements(toks, p + 1, <<>>)
    ELSE ParseFail

\* key ":" value, then "," and more members, or "}"
ParseMembers(toks, p, acc) ==
  IF p + 1 > Len(toks) \/ "key" \notin DOMAIN toks[p] \/ ~IsPunct(toks[p + 1], ":")
  THEN ParseFail
  ELSE LET r == ParseValue(toks, p + 2) IN
    IF ~r.ok \/ r.next > Len(toks) THEN ParseFail
    ELSE LET acc2 == Append(acc, <<toks[p].key, r.val>>) IN
      IF IsPunct(toks[r.next], "}")
      THEN [ok |-> TRUE, val |-> PyDict(acc2), next |-> r.next + 1]
      ELSE IF IsPunct(toks[r.next], ",") THEN ParseMembers(toks, r.next + 1, acc2)
      ELSE ParseFail

\* value, then "," and more elements, or "]"
ParseElements(toks, p, acc) ==
  LET r == ParseValue(toks, p) IN
    IF ~r.ok \/ r.next > Len(toks) THEN ParseFail
    ELSE LET acc2 == Append(acc, r.val) IN
      IF IsPunct(toks[r.next], "]")
      THEN [ok |-> TRUE, val |-> PyList(acc2), next |-> r.next + 1]
      ELSE IF IsPunct(toks[r.next], ",") THEN ParseElements(toks, r.next + 1, acc2)
      ELSE ParseFail

\* json.loads(text): [ok |-> FALSE] stands for JSONDecodeError
JsonLoads(text) ==
  LET r == ParseValue(text, 1) IN
    IF r.ok /\ r.next = Len(text) + 1 THEN [ok |-> TRUE, val |-> r.val]
    ELSE [ok |-> FALSE, val |-> PyNone]

(***************************************************************************)
(* The DynamoDB table gearbox_catalog: a set of items, keyed by (PK, SK).  *)
(***************************************************************************)
TABLE_NAME == <<"gearbox_catalog">>

KeyAttributes == {"PK", "SK"}

KeyOf(item) == [PK |-> item.PK, SK |-> item.SK]

\* the items of the table stored under a key (none or one)
ItemsAt(table, key) == {it \in table : KeyOf(it) = key}

NumberSymbols == {"0", "1", "2", "3", "4", "5", "6", "7", "8", "9"}

\* DynamoDB accepts the text of an N attribute only if it is a number
ValidNumber(s) ==
  LET body == IF s # <<>> /\ s[1] = "-" THEN Tail(s) ELSE s
      dots == {n \in 1..Len(body) : body[n] = "."}
  IN /\ body # <<>>
     /\ \A n \in 1..Len(body) : body[n] \in NumberSymbols \cup {"."}
     /\ Cardinality(dots) <= 1
     /\ \E n \in 1..Len(body) : body[n] \in NumberSymbols

ValidAttributes(attrs) ==
  \A a \in DOMAIN attrs : "N" \in DOMAIN attrs[a] => ValidNumber(attrs[a].N)

\* put_item without the ConditionExpression: the item replaces the one stored
PutItemUnconditional(table, Item) ==
  IF ~ValidAttributes(Item)
  THEN [error |-> "ValidationException", table |-> table]
  ELSE [error |-> "none", table |-> (table \ ItemsAt(table, KeyOf(Item))) \cup {Item}]

\* dynamodb.put_item(Item, ConditionExpression="attribute_not_exists(PK)")
PutItem(table, Item) ==
  IF ~ValidAttributes(Item)
  THEN [error |-> "ValidationException", table |-> table]
  ELSE IF ItemsAt(table, KeyOf(Item)) # {}
  THEN [error |-> "ConditionalCheckFailedException", table |-> table]
  ELSE [error |-> "none", table |-> table \cup {Item}]

\* SET that keeps of the stored item its key only
ApplySetsReplacing(item, sets) ==
  [a \in KeyAttributes \cup {sets[n][1] : n \in 1..Len(sets)} |->
     IF a \in KeyAttributes THEN item[a]
     ELSE sets[CHOOSE n \in 1..Len(sets) : sets[n][1] = a][2]]

RECURSIVE ApplySets(_, _)
\* SET name = value, ... applied to an item, left to right
ApplySets(item, sets) ==
  IF sets = <<>> THEN item
  ELSE ApplySets([a \in DOMAIN item \cup {sets[1][1]} |->
                    IF a = sets[1][1] THEN sets[1][2] ELSE item[a]],
                 Tail(sets))

\* update_item without the ConditionExpression: an absent item is created
UpdateItemUpsert(table, Key, sets) ==
  LET names == {sets[n][1] : n \in 1..Len(sets)}
      attrs == [n \in 1..Len(sets) |-> sets[n][2]]
      old == IF ItemsAt(table, Key) = {} THEN {Key} ELSE ItemsAt(table, Key)
  IN IF \/ Cardinality(names) < Len(sets)
        \/ names \cap KeyAttributes # {}
        \/ ~ValidAttributes(attrs)
     THEN [error |-> "ValidationException", table |-> table]
     ELSE [error |-> "none",
           table |-> (table \ ItemsAt(table, Key))
                     \cup {ApplySets(it, sets) : it \in old}]

\* dynamodb.update_item(Key, UpdateExpression="SET ...",
\*                      ConditionExpression="attribute_exists(PK)")
UpdateItem(table, Key, sets) ==
  LET names == {sets[n][1] : n \in 1..Len(sets)}
      attrs == [n \in 1..Len(sets) |-> sets[n][2]]
  IN IF \/ Cardinality(names) < Len(sets)          \* two paths overlap
        \/ names \cap KeyAttributes # {}           \* a key attribute in SET
        \/ ~ValidAttributes(attrs)
     THEN [error |-> "ValidationException", table |-> table]
     ELSE IF ItemsAt(table, Key) = {}
     THEN [error |-> "ConditionalCheckFailedException", table |-> table]
     ELSE [error |-> "none",
           table |-> (table \ ItemsAt(table, Key))
                     \cup {ApplySets(it, sets) : it \in ItemsAt(table, Key)}]

\* delete_item without the ConditionExpression: deleting nothing succeeds
DeleteItemUnconditional(table, Key) ==
  [error |-> "none", table |-> table \ ItemsAt(table, Key)]

\* dynamodb.delete_item(Key, ConditionExpression="attribute_exists(PK)")
DeleteItem(table, Key) ==
  IF ItemsAt(table, Key) = {}
  THEN [error |-> "ConditionalCheckFailedException", table |-> table]
  ELSE [error |-> "none", table |-> table \ ItemsAt(table, Key)]

(***************************************************************************)
(* Conversion of scanned items and the filter engine                       *)
(***************************************************************************)
\* the order in which a scanned item lists its attributes
AttrOrder == <<"PK", "SK", "gearbox_id", "category_name", "description",
               "model_name", "manufacturer", "gearbox_type", "torque_rating",
               "performance_rating", "application_type", "price_range",
               "created_at", "updated_at">>

\* an exception raised while a value is computed
Raised == [raise |-> TRUE]
IsRaised(v) == "raise" \in DOMAIN v

\* the Python number of a parsed number, Raised for ValueError
NumberOrRaise(parsed, isFloat) ==
  IF ~parsed.ok THEN Raised
  ELSE IF isFloat THEN [float |-> parsed.val] ELSE PyInt(parsed.val)

\* float(n) whatever the text
ConvertNumberAlwaysFloat(num_str) == NumberOrRaise(ParseFloat(num_str), TRUE)

\* int(n) if "." not in n else float(n)
ConvertNumber(num_str) ==
  IF \E n \in 1..Len(num_str) : num_str[n] = "."
  THEN NumberOrRaise(ParseFloat(num_str), TRUE)
  ELSE NumberOrRaise(ParseInt(num_str), FALSE)

\* a list or a dict of converted values, Raised when one of them raised
ListOrRaise(xs) ==
  IF \E n \in 1..Len(xs) : IsRaised(xs[n]) THEN Raised ELSE PyList(xs)

DictOrRaise(kvs) ==
  IF \E n \in 1..Len(kvs) : IsRaised(kvs[n][2]) THEN Raised ELSE PyDict(kvs)

RECURSIVE _convert_dynamodb_item(_)
_convert_dynamodb_item(value) ==
  IF "S" \in DOMAIN value THEN PyStr(value.S)
  ELSE IF "N" \in DOMAIN value THEN ConvertNumber(value.N)
  ELSE IF "BOOL" \in DOMAIN value THEN PyBool(value.BOOL)
  ELSE IF "NULL" \in DOMAIN value THEN PyNone
  ELSE IF "L" \in DOMAIN value THEN
    ListOrRaise([n \in 1..Len(value.L) |-> _convert_dynamodb_item(value.L[n])])
  ELSE IF "M" \in DOMAIN value THEN
    DictOrRaise([n \in 1..Len(value.M) |->
                   <<value.M[n][1], _convert_dynamodb_item(value.M[n][2])>>])
  ELSE IF "SS" \in DOMAIN value THEN
    PyList([n \in 1..Len(value.SS) |-> PyStr(value.SS[n])])
  ELSE IF "NS" \in DOMAIN value THEN
    ListOrRaise([n \in 1..Len(value.NS) |-> ConvertNumber(value.NS[n])])
  ELSE IF "BS" \in DOMAIN value THEN
    PyList([n \in 1..Len(value.BS) |-> [bytes |-> value.BS[n]]])
  ELSE value

\* the attributes an item holds, in the order a scan lists them
AttributesOf(item) == SelectSeq(AttrOrder, LAMBDA a : a \in DOMAIN item)

\* {key: _convert_dynamodb_item(value) for key, value in item.items()}
SimplifyItem(item) ==
  DictOrRaise([n \in 1..Len(AttributesOf(item)) |->
                 <<AttributesOf(item)[n],
                   _convert_dynamodb_item(item[AttributesOf(item)[n]])>>])

\* v.lower() for the value of a filter or of an item field
LowerOf(v) == IF IsStr(v) THEN [ok |-> TRUE, s |-> Lower(v.str)]
              ELSE [ok |-> FALSE, s |-> <<>>]

\* float(v): [ok |-> FALSE] stands for ValueError or TypeError
ToFloat(v) ==
  IF IsInt(v) THEN [ok |-> TRUE, val |-> [m |-> v.int, e |-> 0]]
  ELSE IF IsFloat(v) THEN [ok |-> TRUE, val |-> v.float]
  ELSE IF IsBool(v) THEN [ok |-> TRUE, val |-> [m |-> IF v.bool THEN 1 ELSE 0, e |-> 0]]
  ELSE IF IsStr(v) THEN ParseFloat(v.str)
  ELSE [ok |-> FALSE, val |-> [m |-> 0, e |-> 0]]

CategoryPrefix == <<"c", "a", "t", "e", "g", "o", "r", "y", "#">>
GearboxPrefix == <<"g", "e", "a", "r", "b", "o", "x", "#">>

\* the category looked for in the key of every item, gearboxes included
CategoryStageKeyOnly(item, filters) ==
  IF ~HasKey(filters, "category") THEN "in"
  ELSE LET cf == LowerOf(DictGet(filters, "category", PyNone))
           pk == LowerOf(DictGet(item, "PK", PyStr(<<>>)))
       IN IF ~cf.ok \/ ~pk.ok THEN "raise"
          ELSE IF StartsWith(pk.s, CategoryPrefix) \/ StartsWith(pk.s, GearboxPrefix)
          THEN (IF Contains(pk.s, cf.s) THEN "in" ELSE "out")
          ELSE "in"

\* each stage gives "in", "out" or "raise" (an AttributeError of .lower())
CategoryStage(item, filters) ==
  IF ~HasKey(filters, "category") THEN "in"
  ELSE LET cf == LowerOf(DictGet(filters, "category", PyNone))
           pk == LowerOf(DictGet(item, "PK", PyStr(<<>>)))
       IN IF ~cf.ok \/ ~pk.ok THEN "raise"
          ELSE IF StartsWith(pk.s, CategoryPrefix)
          THEN (IF Contains(pk.s, cf.s) THEN "in" ELSE "out")
          ELSE IF StartsWith(pk.s, GearboxPrefix)
          THEN LET app_type == LowerOf(DictGet(item, "application_type", PyStr(<<>>)))
                   gearbox_type == LowerOf(DictGet(item, "gearbox_type", PyStr(<<>>)))
               IN IF ~app_type.ok \/ ~gearbox_type.ok THEN "raise"
                  ELSE IF ~Contains(app_type.s, cf.s) /\ ~Contains(gearbox_type.s, cf.s)
                  THEN "out" ELSE "in"
          ELSE "in"

\* the filter value contained in the item field instead of equal to it
EqualStageContaining(item, filters, key, field, inc) ==
  IF inc # "in" \/ ~HasKey(filters, key) THEN inc
  ELSE LET f == LowerOf(DictGet(filters, key, PyNone))
           v == LowerOf(DictGet(item, field, PyStr(<<>>)))
       IN IF ~f.ok \/ ~v.ok THEN "raise"
          ELSE IF ~Contains(v.s, f.s) THEN "out" ELSE "in"

\* filter value == item field, both lower-cased
EqualStage(item, filters, key, field, inc) ==
  IF inc # "in" \/ ~HasKey(filters, key) THEN inc
  ELSE LET f == LowerOf(DictGet(filters, key, PyNone))
           v == LowerOf(DictGet(item, field, PyStr(<<>>)))
       IN IF ~f.ok \/ ~v.ok THEN "raise"
          ELSE IF f.s # v.s THEN "out" ELSE "in"

\* filter value in item field, both lower-cased
SubstringStage(item, filters, key, field, inc) ==
  IF inc # "in" \/ ~HasKey(filters, key) THEN inc
  ELSE LET f == LowerOf(DictGet(filters, key, PyNone))
           v == LowerOf(DictGet(item, field, PyStr(<<>>)))
       IN IF ~f.ok \/ ~v.ok THEN "raise"
          ELSE IF ~Contains(v.s, f.s) THEN "out" ELSE "in"

\* a ValueError or TypeError of either float() excludes the item
CompareDroppingInvalid(minimum, rating, inc) ==
  IF ~minimum.ok \/ ~rating.ok THEN "out"
  ELSE IF FloatLess(rating.val, minimum.val) THEN "out" ELSE "in"

\* item value < minimum excludes the item; a ValueError or TypeError of
\* either float() leaves include_item as it was
Compare(minimum, rating, inc) ==
  IF ~minimum.ok \/ ~rating.ok THEN inc
  ELSE IF FloatLess(rating.val, minimum.val) THEN "out" ELSE "in"

\* the comparison without the try: the ValueError of the filter value escapes
MinimumStageUncaught(item, filters, key, field, inc) ==
  IF inc # "in" \/ ~HasKey(filters, key) THEN inc
  ELSE IF ~ToFloat(DictGet(filters, key, PyNone)).ok THEN "raise"
  ELSE Compare(ToFloat(DictGet(filters, key, PyNone)),
               ToFloat(DictGet(item, field, PyInt(0))), inc)

\* float(item field, default 0) >= float(filter value); skipped on ValueError
MinimumStage(item, filters, key, field, inc) ==
  IF inc # "in" \/ ~HasKey(filters, key) THEN inc
  ELSE Compare(ToFloat(DictGet(filters, key, PyNone)),
               ToFloat(DictGet(item, field, PyInt(0))), inc)

\* include_item after all the filters of one loop iteration
IncludeItem(item, filters) ==
  LET c == CategoryStage(item, filters)
      t == EqualStage(item, filters, "type", "gearbox_type", c)
      m == SubstringStage(item, filters, "manufacturer", "manufacturer", t)
      p == EqualStage(item, filters, "price_range", "price_range", m)
      q == MinimumStage(item, filters, "min_torque", "torque_rating", p)
  IN MinimumStage(item, filters, "min_performance", "performance_rating", q)

\* the items whose include_item is "in"; Raised when an item raised
Included(items, include) ==
  IF \E n \in 1..Len(items) : include[n] = "raise" THEN Raised
  ELSE PyList([k \in 1..Cardinality({n \in 1..Len(items) : include[n] = "in"}) |->
                 items[CHOOSE n \in 1..Len(items) :
                         /\ include[n] = "in"
                         /\ Cardinality({m \in 1..n : include[m] = "in"}) = k]])

\* filter_items(items, filters): Raised when an item raises
filter_items(items, filters) ==
  IF ~Truthy(filters) THEN PyList(items)
  ELSE Included(items, [n \in 1..Len(items) |-> IncludeItem(items[n], filters)])

(***************************************************************************)
(* Responses                                                               *)
(***************************************************************************)
JsonHeaders == PyDict(<< <<"Content-Type", PyStr(<<"application/json">>)>> >>)

\* the headers of the 200 response of a GET
GetHeaders ==
  PyDict(<< <<"Content-Type", PyStr(<<"application/json">>)>>,
            <<"Access-Control-Allow-Origin", PyStr(<<"*">>)>>,
            <<"Access-Control-Allow-Headers",
              PyStr(<<"Content-Type", ",", "Authorization", ",", "x-api-key">>)>> >>)

\* the headers of the success response of a create, an update or a delete
MutationHeaders ==
  PyDict(<< <<"Content-Type", PyStr(<<"application/json">>)>>,
            <<"Access-Control-Allow-Origin", PyStr(<<"*">>)>> >>)

Response(status, headers, result) ==
  [statusCode |-> status, headers |-> headers, body |-> JsonDumps(result)]

ErrorResponse(status, message) ==
  Response(status, JsonHeaders, PyDict(<< <<"error", PyStr(message)>> >>))

\* the handler returns a response without calling the store
Return(resp) == [kind |-> "return", resp |-> resp]

DEFAULT_TIMESTAMP == <<"2025-01-14T17:00:00Z">>

\* the error codes of the ClientError the store raises
ClientErrorCodes == {"ConditionalCheckFailedException", "ValidationException",
                     "ProvisionedThroughputExceededException"}

(***************************************************************************)
(* create_gearbox, update_gearbox, delete_gearbox: the code up to the      *)
(* store call gives a response or the call; the code after the call turns  *)
(* the error of the call ("none" when it succeeded) into the response.     *)
(***************************************************************************)
required_fields == <<"gearbox_id", "model_name", "manufacturer", "gearbox_type">>

GearboxKey(gearbox_id) ==
  [PK |-> [S |-> GearboxPrefix \o Str(gearbox_id)], SK |-> [S |-> <<"metadata">>]]

\* the required fields tested for presence only: an empty value passes
MissingFieldsAbsentOnly(gearbox_data) ==
  SelectSeq(required_fields, LAMBDA f : ~HasKey(gearbox_data, f))

\* the required fields for which "not gearbox_data.get(field)" holds, in the
\* order of the loop
MissingFields(gearbox_data) ==
  SelectSeq(required_fields, LAMBDA f : ~Truthy(DictGet(gearbox_data, f, PyNone)))

create_gearbox(data) ==
  LET gearbox_data == DictGet(data, "gearbox", PyDict(<<>>)) IN
  IF ~IsDict(gearbox_data)
  THEN Return(ErrorResponse(500, <<"Internal server error">>))
  ELSE
  LET missing == MissingFields(gearbox_data)
      strings == <<"gearbox_id", "model_name", "manufacturer", "gearbox_type",
                   "application_type", "price_range">>
      numbers == <<"torque_rating", "performance_rating">>
      created_at == DictGet(data, "timestamp", PyStr(DEFAULT_TIMESTAMP))
      \* every value sent under the S tag has to be a str
      badParam == \/ ~IsStr(created_at)
                  \/ \E n \in 1..Len(strings) :
                       /\ HasKey(gearbox_data, strings[n])
                       /\ ~IsStr(DictGet(gearbox_data, strings[n], PyNone))
      item == [a \in {"PK", "SK", "created_at"}
                     \cup {strings[n] : n \in {k \in 1..Len(strings) :
                                                 HasKey(gearbox_data, strings[k])}}
                     \cup {numbers[n] : n \in {k \in 1..Len(numbers) :
                                                 HasKey(gearbox_data, numbers[k])}}
               |->
               IF a = "PK" THEN GearboxKey(DictGet(gearbox_data, "gearbox_id", PyNone)).PK
               ELSE IF a = "SK" THEN [S |-> <<"metadata">>]
               ELSE IF a = "created_at" THEN [S |-> created_at.str]
               ELSE IF a \in {"torque_rating", "performance_rating"}
               THEN [N |-> Str(DictGet(gearbox_data, a, PyNone))]
               ELSE [S |-> DictGet(gearbox_data, a, PyNone).str]]
  IN IF missing # <<>>
     THEN Return(ErrorResponse(400, <<"Missing required field: ">> \o <<missing[1]>>))
     ELSE IF badParam
     THEN Return(ErrorResponse(500, <<"Internal server error">>))
     ELSE [kind |-> "put_item", Item |-> item,
           gearbox_id |-> DictGet(gearbox_data, "gearbox_id", PyNone)]

\* the except clause of create_gearbox without the test of the error code
create_gearbox_result_no_conflict(call, error) ==
  IF error = "none"
  THEN Response(201, MutationHeaders,
                PyDict(<< <<"message", PyStr(<<"Gearbox created successfully">>)>>,
                          <<"gearbox_id", call.gearbox_id>> >>))
  ELSE IF error \in ClientErrorCodes
  THEN ErrorResponse(500, <<"Failed to create gearbox">>)
  ELSE ErrorResponse(500, <<"Internal server error">>)

create_gearbox_result(call, error) ==
  IF error = "none"
  THEN Response(201, MutationHeaders,
                PyDict(<< <<"message", PyStr(<<"Gearbox created successfully">>)>>,
                          <<"gearbox_id", call.gearbox_id>> >>))
  ELSE IF error = "ConditionalCheckFailedException"
  THEN ErrorResponse(409, <<"Gearbox with this ID already exists">>)
  ELSE IF error \in ClientErrorCodes
  THEN ErrorResponse(500, <<"Failed to create gearbox">>)
  ELSE ErrorResponse(500, <<"Internal server error">>)

ProtectedFields == {"PK", "SK", "gearbox_id"}

\* only the key attributes protected, gearbox_id left out
IsProtectedKeyOnly(field) == field \in KeyAttributes

\* is field one of the fields an update must not change
IsProtected(field) == field \in ProtectedFields

\* isinstance(value, (int, float)); a bool is an int
IsNumberInstance(value) == IsInt(value) \/ IsFloat(value) \/ IsBool(value)

\* the tagged value of one field of an update
TypedValue(value) ==
  IF IsNumberInstance(value) THEN [N |-> Str(value)] ELSE [S |-> Str(value)]

\* update_gearbox with the test of updates placed before the test of the id
update_gearbox_updates_first(data) ==
  LET gearbox_id == DictGet(data, "gearbox_id", PyNone)
      updates == DictGet(data, "updates", PyDict(<<>>))
  IN IF ~Truthy(updates)
     THEN Return(ErrorResponse(400, <<"No updates provided">>))
     ELSE IF ~Truthy(gearbox_id)
     THEN Return(ErrorResponse(400, <<"gearbox_id is required for updates">>))
     ELSE IF ~IsDict(updates)
     THEN Return(ErrorResponse(500, <<"Internal server error">>))
     ELSE
     LET kept == SelectSeq(updates.dict, LAMBDA kv : ~IsProtected(kv[1]))
         sets == [n \in 1..Len(kept) |-> <<kept[n][1], TypedValue(kept[n][2])>>]
         timestamp == DictGet(data, "timestamp", PyStr(DEFAULT_TIMESTAMP))
     IN IF kept = <<>>
        THEN Return(ErrorResponse(400, <<"No valid fields to update">>))
        ELSE IF ~IsStr(timestamp)
        THEN Return(ErrorResponse(500, <<"Internal server error">>))
        ELSE [kind |-> "update_item", Key |-> GearboxKey(gearbox_id),
              sets |-> Append(sets, <<"updated_at", [S |-> timestamp.str]>>),
              gearbox_id |-> gearbox_id,
              updated_fields |-> DictKeys(updates)]

update_gearbox(data) ==
  LET gearbox_id == DictGet(data, "gearbox_id", PyNone)
      updates == DictGet(data, "updates", PyDict(<<>>))
  IN IF ~Truthy(gearbox_id)
     THEN Return(ErrorResponse(400, <<"gearbox_id is required for updates">>))
     ELSE IF ~Truthy(updates)
     THEN Return(ErrorResponse(400, <<"No updates provided">>))
     ELSE IF ~IsDict(updates)
     THEN Return(ErrorResponse(500, <<"Internal server error">>))
     ELSE
     LET kept == SelectSeq(updates.dict, LAMBDA kv : ~IsProtected(kv[1]))
         sets == [n \in 1..Len(kept) |-> <<kept[n][1], TypedValue(kept[n][2])>>]
         timestamp == DictGet(data, "timestamp", PyStr(DEFAULT_TIMESTAMP))
     IN IF kept = <<>>
        THEN Return(ErrorResponse(400, <<"No valid fields to update">>))
        ELSE IF ~IsStr(timestamp)
        THEN Return(ErrorResponse(500, <<"Internal server error">>))
        ELSE [kind |-> "update_item", Key |-> GearboxKey(gearbox_id),
              sets |-> Append(sets, <<"updated_at", [S |-> timestamp.str]>>),
              gearbox_id |-> gearbox_id,
              updated_fields |-> DictKeys(updates)]

update_gearbox_result(call, error) ==
  IF error = "none"
  THEN Response(200, MutationHeaders,
                PyDict(<< <<"message", PyStr(<<"Gearbox updated successfully">>)>>,
                          <<"gearbox_id", call.gearbox_id>>,
                          <<"updated_fields",
                            PyList([n \in 1..Len(call.updated_fields) |->
                                      PyStr(<<call.updated_fields[n]>>)])>> >>))
  ELSE IF error = "ConditionalCheckFailedException"
  THEN ErrorResponse(404, <<"Gearbox not found">>)
  ELSE IF error \in ClientErrorCodes
  THEN ErrorResponse(500, <<"Failed to update gearbox">>)
  ELSE ErrorResponse(500, <<"Internal server error">>)

delete_gearbox(data) ==
  LET gearbox_id == DictGet(data, "gearbox_id", PyNone) IN
    IF ~Truthy(gearbox_id)
    THEN Return(ErrorResponse(400, <<"gearbox_id is required for deletion">>))
    ELSE [kind |-> "delete_item", Key |-> GearboxKey(gearbox_id),
          gearbox_id |-> gearbox_id]

\* the except clause of delete_gearbox without the test of the error code
delete_gearbox_result_no_code_test(call, error) ==
  IF error = "none"
  THEN Response(200, MutationHeaders,
                PyDict(<< <<"message", PyStr(<<"Gearbox deleted successfully">>)>>,
                          <<"gearbox_id", call.gearbox_id>> >>))
  ELSE IF error \in ClientErrorCodes
  THEN ErrorResponse(500, <<"Failed to delete gearbox">>)
  ELSE ErrorResponse(500, <<"Internal server error">>)

delete_gearbox_result(call, error) ==
  IF error = "none"
  THEN Response(200, MutationHeaders,
                PyDict(<< <<"message", PyStr(<<"Gearbox deleted successfully">>)>>,
                          <<"gearbox_id", call.gearbox_id>> >>))
  ELSE IF error = "ConditionalCheckFailedException"
  THEN ErrorResponse(404, <<"Gearbox not found">>)
  ELSE IF error \in ClientErrorCodes
  THEN ErrorResponse(500, <<"Failed to delete gearbox">>)
  ELSE ErrorResponse(500, <<"Internal server error">>)

(***************************************************************************)
(* lambda_handler: the code up to the store call                           *)
(***************************************************************************)
\* ", ".join(f"{k}={v}" for k, v in query_params.items())
RECURSIVE JoinParams(_)
JoinParams(kvs) ==
  IF kvs = <<>> THEN <<>>
  ELSE <<kvs[1][1], "=">> \o Str(kvs[1][2])
       \o (IF Len(kvs) > 1 THEN <<", ">> ELSE <<>>)
       \o JoinParams(Tail(kvs))

\* the except clauses without the last one: any other exception escapes
HandlerExceptNoCatchAll(exception) ==
  IF exception \in ClientErrorCodes
  THEN ErrorResponse(500, <<"Database operation failed">>)
  ELSE IF exception = "JSONDecodeError"
  THEN ErrorResponse(400, <<"Invalid JSON in request body.">>)
  ELSE Raised

\* the except clauses of lambda_handler: the response for an exception raised
\* inside its try block
HandlerExcept(exception) ==
  IF exception \in ClientErrorCodes
  THEN ErrorResponse(500, <<"Database operation failed">>)
  ELSE IF exception = "JSONDecodeError"
  THEN ErrorResponse(400, <<"Invalid JSON in request body.">>)
  ELSE ErrorResponse(500, <<"Internal server error.">>)

\* not api_key or not api_key.strip()
KeyMissing(api_key) == ~Truthy(api_key) \/ Strip(api_key.str) = <<>>

\* a missing key refused with 401 instead of logged
ApiKeyCheckRejecting(api_key, proceed) ==
  IF KeyMissing(api_key)
  THEN Return(ErrorResponse(401, <<"API key is missing or invalid.">>))
  ELSE proceed

\* if the key is missing: logger.info(...), and the request proceeds
ApiKeyCheck(api_key, proceed) == IF KeyMissing(api_key) THEN proceed ELSE proceed

\* json.loads(body_raw) if isinstance(body_raw, str) else {}
ParseBodyAnyString(body_raw) ==
  IF IsStr(body_raw)
  THEN JsonLoads(body_raw.str)
  ELSE [ok |-> TRUE, val |-> PyDict(<<>>)]

\* json.loads(body_raw) if body_raw else {}, where json.loads of an object
\* that is not a string fails
ParseBodyNoTypeTest(body_raw) ==
  IF IsStr(body_raw) /\ Truthy(body_raw) THEN JsonLoads(body_raw.str)
  ELSE IF IsStr(body_raw) \/ IsDict(body_raw) THEN [ok |-> TRUE, val |-> PyDict(<<>>)]
  ELSE [ok |-> FALSE, val |-> PyNone]

\* body = json.loads(body_raw) if isinstance(body_raw, str) and body_raw else {}
ParseBody(body_raw) ==
  IF IsStr(body_raw) /\ Truthy(body_raw)
  THEN JsonLoads(body_raw.str)
  ELSE [ok |-> TRUE, val |-> PyDict(<<>>)]

\* the branch a method selects: "GET", "POST" or "other"
Route(http_method) ==
  IF http_method = PyStr(<<"GET">>) THEN "GET"
  ELSE IF http_method = PyStr(<<"POST">>) THEN "POST"
  ELSE "other"

\* the dispatch with update and delete exchanged
DispatchExchanged(body, operation) ==
  IF operation = PyStr(<<"create">>) THEN create_gearbox(body)
  ELSE IF operation = PyStr(<<"update">>) THEN delete_gearbox(body)
  ELSE IF operation = PyStr(<<"delete">>) THEN update_gearbox(body)
  ELSE Return(ErrorResponse(400, <<"Unknown operation: ">> \o Str(operation)))

\* the if/elif chain on operation of the POST branch
Dispatch(body, operation) ==
  IF operation = PyStr(<<"create">>) THEN create_gearbox(body)
  ELSE IF operation = PyStr(<<"update">>) THEN update_gearbox(body)
  ELSE IF operation = PyStr(<<"delete">>) THEN delete_gearbox(body)
  ELSE Return(ErrorResponse(400, <<"Unknown operation: ">> \o Str(operation)))

lambda_handler(event) ==
  IF ~IsDict(event)
  THEN Return(HandlerExcept("AttributeError"))
  ELSE
  LET headers == DictGet(event, "headers", PyDict(<<>>))
      http_method == DictGet(event, "httpMethod", PyStr(<<"GET">>))
      body_raw == DictGet(event, "body", PyStr(<<Punct("{"), Punct("}")>>))
      parsed == ParseBody(body_raw)
      body == parsed.val
      api_key == IF IsDict(headers) THEN DictGet(headers, "x-api-key", PyNone) ELSE PyNone
      query == DictGet(event, "queryStringParameters", PyNone)
      query_params == IF Truthy(query) THEN query ELSE PyDict(<<>>)
  IN IF ~parsed.ok
     THEN Return(HandlerExcept("JSONDecodeError"))
     ELSE IF ~IsDict(headers)
     THEN Return(HandlerExcept("AttributeError"))
     ELSE IF Truthy(api_key) /\ ~IsStr(api_key)
     THEN Return(HandlerExcept("AttributeError"))
     ELSE ApiKeyCheck(api_key,
     IF Route(http_method) = "GET" THEN
       IF ~IsDict(query_params)
       THEN Return(HandlerExcept("AttributeError"))
       ELSE [kind |-> "scan", query_params |-> query_params,
             message_suffix |->
               IF Truthy(query_params)
               THEN <<" (Filtered by: ">> \o JoinParams(query_params.dict) \o <<")">>
               ELSE <<" - All Items">>]
     ELSE IF Route(http_method) = "POST" THEN
       IF ~Truthy(body)
       THEN Return(ErrorResponse(400, <<"Request body is required for POST operations">>))
       ELSE IF ~IsDict(body)
       THEN Return(HandlerExcept("AttributeError"))
       ELSE Dispatch(body, DictGet(body, "operation", PyStr(<<"create">>)))
     ELSE Return(ErrorResponse(405, <<"Method ">> \o Str(http_method) \o <<" not allowed">>)))

(***************************************************************************)
(* Inputs                                                                  *)
(***************************************************************************)
\* gearbox ids and other field values
Id1 == <<"g", "1">>
Id2 == <<"g", "2">>
Planetary == <<"p", "l", "a", "n", "e", "t", "a", "r", "y">>
Helical == <<"h", "e", "l", "i", "c", "a", "l">>
Acme == <<"A", "c", "m", "e">>
ModelX == <<"M", "X">>
ModelY == <<"M", "Y">>
ModelZ == <<"M", "Z">>
Automotive == <<"a", "u", "t", "o">>

\* the order in which a scan walks the partition keys
ScanOrder == <<GearboxPrefix \o Id2, CategoryPrefix \o Automotive, GearboxPrefix \o Id1,
               <<"n", "o", "t", "e", "#", "1">>, GearboxPrefix \o <<"g", "3">> >>

CategoryItem ==
  [PK |-> [S |-> CategoryPrefix \o Automotive], SK |-> [S |-> <<"metadata">>],
   category_name |-> [S |-> Automotive],
   description |-> [S |-> <<"Automotive gearboxes">>],
   created_at |-> [S |-> DEFAULT_TIMESTAMP]]

SeededItem ==
  [PK |-> [S |-> GearboxPrefix \o Id2], SK |-> [S |-> <<"metadata">>],
   gearbox_id |-> [S |-> Id2], model_name |-> [S |-> ModelY],
   manufacturer |-> [S |-> Acme], gearbox_type |-> [S |-> Helical],
   torque_rating |-> [N |-> <<"5", "0">>],
   created_at |-> [S |-> DEFAULT_TIMESTAMP]]

\* the tables an execution starts from; none holds gearbox#g1
InitialTables == {{}, {CategoryItem}, {CategoryItem, SeededItem}}

Gearbox(id, model) ==
  PyDict(<< <<"gearbox_id", PyStr(id)>>, <<"model_name", PyStr(model)>>,
            <<"manufacturer", PyStr(Acme)>>, <<"gearbox_type", PyStr(Planetary)>>,
            <<"torque_rating", PyInt(100)>> >>)

CreateBody(id, model) ==
  PyDict(<< <<"operation", PyStr(<<"create">>)>>, <<"gearbox", Gearbox(id, model)>> >>)

UpdateBody(id, updates) ==
  PyDict(<< <<"operation", PyStr(<<"update">>)>>, <<"gearbox_id", PyStr(id)>>,
            <<"updates", PyDict(updates)>> >>)

DeleteBody(id) ==
  PyDict(<< <<"operation", PyStr(<<"delete">>)>>, <<"gearbox_id", PyStr(id)>> >>)

\* an update that names the three protected fields and two others
MixedUpdates ==
  << <<"PK", PyStr(GearboxPrefix \o Id2)>>, <<"model_name", PyStr(ModelZ)>>,
     <<"gearbox_id", PyStr(Id2)>>, <<"SK", PyStr(<<"x">>)>>,
     <<"torque_rating", PyInt(7)>> >>

\* a create whose gearbox names gearbox_type first and empty, then the id,
\* then an empty model_name, and no manufacturer
UnorderedCreate ==
  PyDict(<< <<"operation", PyStr(<<"create">>)>>,
            <<"gearbox", PyDict(<< <<"gearbox_type", PyStr(<<>>)>>,
                                   <<"gearbox_id", PyStr(Id1)>>,
                                   <<"model_name", PyStr(<<>>)>> >>)>> >>)

\* an update with a value of every JSON type
VariedUpdates ==
  << <<"active", PyBool(TRUE)>>, <<"note", PyNone>>, <<"tags", PyList(<<PyInt(1)>>)>>,
     <<"dims", PyDict(<< <<"a", PyInt(1)>> >>)>>, <<"ratio", PyFloat(15, 1)>>,
     <<"stages", PyInt(3)>>, <<"model_name", PyStr(ModelZ)>> >>

\* updates that fail the validation: an empty id with empty updates, no id
\* with a protected field only, and an id without updates
UpdateEmptyId ==
  PyDict(<< <<"operation", PyStr(<<"update">>)>>, <<"gearbox_id", PyStr(<<>>)>>,
            <<"updates", PyDict(<<>>)>> >>)

UpdateNoId ==
  PyDict(<< <<"operation", PyStr(<<"update">>)>>,
            <<"updates", PyDict(<< <<"PK", PyStr(<<"x">>)>> >>)>> >>)

UpdateNoUpdates ==
  PyDict(<< <<"operation", PyStr(<<"update">>)>>, <<"gearbox_id", PyStr(Id1)>> >>)

\* the body objects of the requests
BodyObjects ==
  { PyDict(<<>>),
    CreateBody(Id1, ModelX),
    PyDict(<< <<"gearbox", Gearbox(Id2, ModelX)>> >>),
    PyDict(<< <<"operation", PyStr(<<"create">>)>>,
              <<"gearbox", PyDict(<< <<"gearbox_id", PyStr(Id1)>>,
                                     <<"model_name", PyStr(ModelX)>>,
                                     <<"gearbox_type", PyStr(Planetary)>> >>)>> >>),
    UnorderedCreate,
    UpdateBody(Id1, MixedUpdates),
    UpdateBody(Id1, << <<"SK", PyStr(<<"x">>)>> >>),
    UpdateBody(Id1, <<>>),
    UpdateBody(Id2, VariedUpdates),
    UpdateBody(Id2, << <<"gearbox_type", PyInt(5)>> >>),
    UpdateEmptyId,
    UpdateNoId,
    UpdateNoUpdates,
    DeleteBody(Id1),
    DeleteBody(Id2),
    PyDict(<< <<"operation", PyStr(<<"t", "e", "s", "t">>)>> >>),
    PyDict(<< <<"operation", PyNone>>, <<"gearbox", Gearbox(Id1, ModelX)>> >>),
    PyDict(<< <<"operation", PyStr(<<"create">>)>>, <<"gearbox", PyStr(<<"x">>)>> >>) }

\* '{"invalid": json}'
InvalidJson == <<Punct("{"), [key |-> "invalid"], Punct(":"), [word |-> "json"], Punct("}")>>

\* the raw bodies: <<>> is a request without a body key
RawBodies ==
  {<<>>, <<PyNone>>, <<PyStr(<<>>)>>, <<PyStr(InvalidJson)>>,
   <<PyStr(JsonDumps(PyList(<<PyInt(1)>>)))>>}
  \cup {<<b>> : b \in BodyObjects}
  \cup {<<PyStr(JsonDumps(b))>> : b \in BodyObjects}

ApiKey == <<"k", "e", "y">>

\* the headers: <<>> is a request without a headers key
HeaderChoices ==
  {<<>>, <<PyNone>>, <<PyDict(<<>>)>>,
   <<PyDict(<< <<"x-api-key", PyStr(ApiKey)>> >>)>>,
   <<PyDict(<< <<"x-api-key", PyStr(<<>>)>> >>)>>,
   <<PyDict(<< <<"x-api-key", PyStr(<<" ", "\t", "\n">>)>> >>)>>,
   <<PyDict(<< <<"X-API-KEY", PyStr(ApiKey)>> >>)>>}

MethodChoices == {<<>>, <<PyStr(<<"GET">>)>>, <<PyStr(<<"POST">>)>>,
                  <<PyStr(<<"DELETE">>)>>}

\* the query strings of the filtered requests
Queries ==
  { << <<"type", PyStr(Helical)>> >>,
    << <<"manufacturer", PyStr(<<"a", "c", "m", "e">>)>>, <<"min_torque", PyStr(<<"6", "0">>)>> >>,
    << <<"min_torque", PyStr(<<"6", "0">>)>>, <<"manufacturer", PyStr(<<"a", "c", "m", "e">>)>> >>,
    << <<"category", PyStr(<<"T">>)>> >>,
    << <<"sort", PyStr(<<"a", "s", "c">>)>> >> }

QueryChoices == {<<>>, <<PyNone>>, <<PyDict(<<>>)>>} \cup {<<PyDict(q)>> : q \in Queries}

\* the event dict with the given keys present
MakeEvent(method, headers, body, query) ==
  PyDict((IF method = <<>> THEN <<>> ELSE << <<"httpMethod", method[1]>> >>)
         \o (IF headers = <<>> THEN <<>> ELSE << <<"headers", headers[1]>> >>)
         \o (IF body = <<>> THEN <<>> ELSE << <<"body", body[1]>> >>)
         \o (IF query = <<>> THEN <<>> ELSE << <<"queryStringParameters", query[1]>> >>))

\* the raw bodies of the requests that are not a POST
FewBodies ==
  {<<>>, <<PyNone>>, <<PyStr(<<>>)>>, <<PyStr(InvalidJson)>>,
   <<DeleteBody(Id2)>>, <<PyStr(JsonDumps(DeleteBody(Id2)))>>}

Events ==
  {PyNone}
  \cup {MakeEvent(<<PyStr(<<"POST">>)>>, h, b, <<PyNone>>) :
          h \in HeaderChoices, b \in RawBodies}
  \cup {MakeEvent(m, h, b, <<PyNone>>) :
          m \in MethodChoices, h \in HeaderChoices, b \in FewBodies}
  \cup {MakeEvent(<<PyStr(<<"GET">>)>>, h, <<PyNone>>, q) :
          h \in HeaderChoices, q \in QueryChoices}

(***************************************************************************)
(* The scan of the table, page by page, and the GET response               *)
(***************************************************************************)
RECURSIVE SeqOf(_)
\* the elements of a set in some order
SeqOf(set) ==
  IF set = {} THEN <<>>
  ELSE LET x == CHOOSE x \in set : TRUE IN <<x>> \o SeqOf(set \ {x})

\* the place of a key in the walk of a scan
Rank(key) ==
  IF \E n \in 1..Len(ScanOrder) : ScanOrder[n] = key.PK.S
  THEN CHOOSE n \in 1..Len(ScanOrder) : ScanOrder[n] = key.PK.S
  ELSE Len(ScanOrder) + 1

RECURSIVE ItemsFrom(_, _)
\* the items of the table whose rank is r or more, in scan order
ItemsFrom(table, r) ==
  IF r > Len(ScanOrder) + 1 THEN <<>>
  ELSE SeqOf({it \in table : Rank(KeyOf(it)) = r}) \o ItemsFrom(table, r + 1)

\* one page of the items still to scan: at most limit of them, and the key of
\* the last one when more are left
Page(rest, limit) ==
  [Items |-> SubSeq(rest, 1, IF Len(rest) < limit THEN Len(rest) ELSE limit),
   LastEvaluatedKey |-> IF Len(rest) > limit THEN <<KeyOf(rest[limit])>> ELSE <<>>]

\* dynamodb.scan(ExclusiveStartKey=...) answering with at most limit items;
\* ExclusiveStartKey and LastEvaluatedKey are <<>> when absent, else <<key>>
Scan(table, ExclusiveStartKey, limit) ==
  Page(IF ExclusiveStartKey = <<>> THEN ItemsFrom(table, 1)
       ELSE ItemsFrom(table, Rank(ExclusiveStartKey[1]) + 1),
       limit)

RECURSIVE ScanLoop(_, _, _, _, _), AfterScan(_, _, _, _, _)
\* the while loop of get_all_gearboxes; calls counts the scans made so far,
\* env.fault is raised by scan number env.faultAt, every page holds at most
\* env.limit items
ScanLoop(table, ExclusiveStartKey, items, calls, env) ==
  IF env.fault # "none" /\ env.faultAt = calls + 1
  THEN [error |-> env.fault, items |-> <<>>, calls |-> calls + 1]
  ELSE AfterScan(table, Scan(table, ExclusiveStartKey, env.limit), items, calls, env)

\* the loop left after the first page, whether or not the page has a
\* LastEvaluatedKey
AfterScanFirstPageOnly(table, response, items, calls, env) ==
  [error |-> "none", items |-> items \o response.Items, calls |-> calls + 1]

\* the body of the loop after the scan has answered
AfterScan(table, response, items, calls, env) ==
  IF response.LastEvaluatedKey = <<>>
  THEN [error |-> "none", items |-> items \o response.Items, calls |-> calls + 1]
  ELSE ScanLoop(table, response.LastEvaluatedKey, items \o response.Items,
                calls + 1, env)

\* the simplified items, or the exception one of the conversions raised
SimplifiedOrRaise(simplified_items) ==
  IF \E n \in 1..Len(simplified_items) : IsRaised(simplified_items[n])
  THEN [error |-> "ValueError", items |-> <<>>]
  ELSE [error |-> "none", items |-> simplified_items]

\* the second loop of get_all_gearboxes, after the scans
Simplify(scanned) ==
  IF scanned.error # "none" THEN [error |-> scanned.error, items |-> <<>>]
  ELSE SimplifiedOrRaise([n \in 1..Len(scanned.items) |-> SimplifyItem(scanned.items[n])])

\* get_all_gearboxes(): [error, items]; "ValueError" when a conversion raises
get_all_gearboxes(table, env) == Simplify(ScanLoop(table, <<>>, <<>>, 0, env))

\* the test of the prefix made on the whole key, not on its start
HasPrefixAnywhere(item, prefix) ==
  Contains(DictGet(item, "PK", PyStr(<<>>)).str, <<"#">>)

HasPrefix(item, prefix) ==
  StartsWith(DictGet(item, "PK", PyStr(<<>>)).str, prefix)

\* the 200 response of a GET for the items the filters kept
Catalog(call, filtered_items, categories, gearbox_items) ==
  Response(200, GetHeaders,
    PyDict(<< <<"message", PyStr(<<"Gearbox Catalog">> \o call.message_suffix)>>,
              <<"filters_applied",
                IF Truthy(call.query_params) THEN call.query_params ELSE PyNone>>,
              <<"summary",
                PyDict(<< <<"total_items", PyInt(Len(filtered_items))>>,
                          <<"categories", PyInt(Len(categories))>>,
                          <<"gearbox_products", PyInt(Len(gearbox_items))>> >>)>>,
              <<"categories", PyList(categories)>>,
              <<"gearboxes", PyList(gearbox_items)>> >>))

\* the loop that separates the filtered items by the prefix of their PK
Separate(call, filtered) ==
  IF IsRaised(filtered)
  THEN HandlerExcept("AttributeError")
  ELSE Catalog(call, filtered.list,
               SelectSeq(filtered.list, LAMBDA it : HasPrefix(it, CategoryPrefix)),
               SelectSeq(filtered.list, LAMBDA it : /\ ~HasPrefix(it, CategoryPrefix)
                                                    /\ HasPrefix(it, GearboxPrefix)))

\* the GET branch of lambda_handler after get_all_gearboxes
lambda_handler_get(call, all_items) ==
  IF all_items.error # "none"
  THEN HandlerExcept(all_items.error)
  ELSE Separate(call, filter_items(all_items.items, call.query_params))

(***************************************************************************)
(* The store call of a pending invocation and the code after it            *)
(***************************************************************************)
\* the faults a store call can raise whatever the table holds: a ClientError
\* (throttling) and an exception that is not a ClientError
Faults == {"ProvisionedThroughputExceededException", "EndpointConnectionError"}

\* [resp, table] after the store call of `call`; a handler that has returned
\* before any store call leaves the table alone
StoreCall(call, table, env) ==
  IF call.kind = "return"
  THEN [resp |-> call.resp, table |-> table]
  ELSE IF call.kind = "scan"
  THEN [resp |-> lambda_handler_get(call, get_all_gearboxes(table, env)), table |-> table]
  ELSE IF env.fault # "none"
  THEN [resp |-> IF call.kind = "put_item" THEN create_gearbox_result(call, env.fault)
                 ELSE IF call.kind = "update_item" THEN update_gearbox_result(call, env.fault)
                 ELSE delete_gearbox_result(call, env.fault),
        table |-> table]
  ELSE IF call.kind = "put_item"
  THEN [resp |-> create_gearbox_result(call, PutItem(table, call.Item).error),
        table |-> PutItem(table, call.Item).table]
  ELSE IF call.kind = "update_item"
  THEN [resp |-> update_gearbox_result(call, UpdateItem(table, call.Key, call.sets).error),
        table |-> UpdateItem(table, call.Key, call.sets).table]
  ELSE [resp |-> delete_gearbox_result(call, DeleteItem(table, call.Key).error),
        table |-> DeleteItem(table, call.Key).table]

\* one whole invocation of lambda_handler against the table
Invocation(event, table, env) == StoreCall(lambda_handler(event), table, env)

(***************************************************************************)
(* Bounds                                                                  *)
(***************************************************************************)
\* invocations that may be in flight together
NumInv == 2
\* the most items one page of a scan holds
PageLimit == 2
\* the latest scan call of one GET that may raise a fault
MaxFaultAt == 2

(***************************************************************************)
(* State: the table, and per invocation slot the event being handled, the  *)
(* store call it is about to make, what the store did to it and the        *)
(* response it returned.                                                   *)
(***************************************************************************)
VARIABLES table, inv

vars == <<table, inv>>

NoCall == [kind |-> "none"]
NoEnv == [fault |-> "none", faultAt |-> 1, limit |-> 1]
NoResponse == [statusCode |-> 0, headers |-> PyDict(<<>>), body |-> <<>>]

Idle == [pc |-> "idle", event |-> PyNone, call |-> NoCall, env |-> NoEnv,
         resp |-> NoResponse]

\* what the store may do during one invocation
Envs ==
  {[fault |-> "none", faultAt |-> 1, limit |-> n] : n \in 1..PageLimit}
  \cup {[fault |-> f, faultAt |-> k, limit |-> n] :
          f \in Faults, k \in 1..MaxFaultAt, n \in 1..PageLimit}

\* the store during a mutation: only the fault matters
WriteEnvs == {[fault |-> f, faultAt |-> 1, limit |-> 1] : f \in Faults \cup {"none"}}

Init ==
  /\ table \in InitialTables
  /\ inv = [i \in 1..NumInv |-> Idle]

\* a whole invocation, from the event to the response, with nothing in between
Handle(i, event, env) ==
  /\ inv[i].pc = "idle"
  /\ \E first \in {lambda_handler(event)} :
       \E r \in {StoreCall(first, table, env)} :
         /\ table' = r.table
         /\ inv' = [inv EXCEPT ![i] = [pc |-> "done", event |-> event, call |-> first,
                                       env |-> env, resp |-> r.resp]]

\* the response has gone to the caller; the slot takes the next event
Deliver(i) ==
  /\ inv[i].pc = "done"
  /\ inv' = [inv EXCEPT ![i] = Idle]
  /\ UNCHANGED table

\* the choices of the store that matter to a call of the given kind
EnvsOf(kind) ==
  IF kind = "scan" THEN Envs ELSE IF kind = "return" THEN {NoEnv} ELSE WriteEnvs

\* the choices of the store that an invocation for the event meets
EnvsFor(event) == EnvsOf(lambda_handler(event).kind)

Next ==
  \/ \E event \in Events : \E env \in EnvsFor(event) : Handle(1, event, env)
  \/ Deliver(1)

Spec == Init /\ [][Next]_vars

(***************************************************************************)
(* Concurrent invocations: the code before the store call and the store    *)
(* call are separate steps, so that the calls of different invocations     *)
(* interleave.  Every slot handles one mutation.                           *)
(***************************************************************************)
PostEvent(body) ==
  MakeEvent(<<PyStr(<<"POST">>)>>, <<PyDict(<< <<"x-api-key", PyStr(ApiKey)>> >>)>>,
            <<PyStr(JsonDumps(body))>>, <<PyNone>>)

RaceEvents ==
  {PostEvent(CreateBody(Id1, ModelX)), PostEvent(CreateBody(Id1, ModelY)),
   PostEvent(UpdateBody(Id1, MixedUpdates)), PostEvent(DeleteBody(Id1)),
   PostEvent(UpdateBody(Id2, MixedUpdates)), PostEvent(DeleteBody(Id2))}

\* lambda_handler up to its store call
Invoke(i, event) ==
  /\ inv[i].pc = "idle"
  /\ \E first \in {lambda_handler(event)} :
       inv' = [inv EXCEPT ![i] =
                 IF first.kind = "return"
                 THEN [pc |-> "done", event |-> event, call |-> first, env |-> NoEnv,
                       resp |-> first.resp]
                 ELSE [pc |-> "call", event |-> event, call |-> first, env |-> NoEnv,
                       resp |-> NoResponse]]
  /\ UNCHANGED table

\* the store call of a pending invocation, and the response
Call(i, env) ==
  /\ inv[i].pc = "call"
  /\ \E r \in {StoreCall(inv[i].call, table, env)} :
       /\ table' = r.table
       /\ inv' = [inv EXCEPT ![i] = [@ EXCEPT !.pc = "done", !.env = env,
                                                !.resp = r.resp]]

NextRace ==
  \/ \E i \in 1..NumInv, event \in RaceEvents : Invoke(i, event)
  \/ \E i \in 1..NumInv, env \in WriteEnvs : Call(i, env)

SpecRace == Init /\ [][NextRace]_vars

(***************************************************************************)
(* Properties of lambda_handler as one request after another (Spec)        *)
(***************************************************************************)
Done(i) == inv[i].pc = "done"

\* the parts of the event of a slot
Method(i) == DictGet(inv[i].event, "httpMethod", PyStr(<<"GET">>))
IsGet(i) == IsDict(inv[i].event) /\ Method(i) = PyStr(<<"GET">>)
IsPost(i) == IsDict(inv[i].event) /\ Method(i) = PyStr(<<"POST">>)
BodyAbsent(i) == ~HasKey(inv[i].event, "body")
RawBody(i) == DictGet(inv[i].event, "body", PyNone)
\* the headers are a mapping from strings to strings, or absent
HeadersDocumented(ev) ==
  LET h == DictGet(ev, "headers", PyDict(<<>>)) IN
    IsDict(h) /\ \A n \in 1..Len(h.dict) : IsStr(h.dict[n][2])

Status(i) == inv[i].resp.statusCode
\* the error text of the response body, PyNone when there is none
ErrorOf(resp) ==
  LET parsed == JsonLoads(resp.body) IN
    IF parsed.ok /\ IsDict(parsed.val) THEN DictGet(parsed.val, "error", PyNone)
    ELSE PyNone
HasError(i, text) == ErrorOf(inv[i].resp) = PyStr(text)

IsResponse(resp) ==
  /\ DOMAIN resp = {"statusCode", "headers", "body"}
  /\ resp.statusCode \in 100..599
  /\ IsDict(resp.headers)
  /\ JsonLoads(resp.body).ok

\* C1: whatever the event (a request, an event with missing keys, None) and
\* whatever fault the store raises, the handler returns a response with an
\* integer status code, a headers mapping and a body that is JSON text, and
\* the None event gets 500 "Internal server error."
C1_AlwaysResponds ==
  \A i \in 1..NumInv : Done(i) =>
    /\ IsResponse(inv[i].resp)
    /\ inv[i].event = PyNone =>
         Status(i) = 500 /\ HasError(i, <<"Internal server error.">>)

\* the None event has been answered, and so has a GET whose scan raised an
\* exception that is not a ClientError
C1_Witness ==
  /\ Done(1) /\ inv[1].event = PyNone /\ Status(1) = 500
  /\ HasError(1, <<"Internal server error.">>)

\* C2 (as claimed): a request whose method is neither GET nor POST gets 405
\* "Method <M> not allowed" whatever its body and its API key are
C2_OtherMethodIs405 ==
  \A i \in 1..NumInv :
    (/\ Done(i) /\ IsDict(inv[i].event) /\ HeadersDocumented(inv[i].event)
     /\ HasKey(inv[i].event, "httpMethod")
     /\ Method(i) \notin {PyStr(<<"GET">>), PyStr(<<"POST">>)})
    => /\ Status(i) = 405
       /\ HasError(i, <<"Method ">> \o Str(Method(i)) \o <<" not allowed">>)

\* the headers that differ only in the API key
KeyHeaders == {h \in HeaderChoices : h = <<>> \/ IsDict(h[1])}

\* the event with its headers replaced (removed when h is <<>>)
WithHeaders(ev, h) ==
  PyDict(SelectSeq(ev.dict, LAMBDA kv : kv[1] # "headers")
         \o (IF h = <<>> THEN <<>> ELSE << <<"headers", h[1]>> >>))

NotJson(raw) == IsStr(raw) /\ ~JsonLoads(raw.str).ok

WithTextBody(ev) ==
  PyDict([n \in 1..Len(ev.dict) |->
            IF ev.dict[n][1] = "body"
            THEN <<"body", PyStr(JsonDumps(ev.dict[n][2]))>>
            ELSE ev.dict[n]])

\* C5 (as claimed): a POST whose body is a structured object is dispatched
\* as the POST whose body is the JSON text of that object
C5_ObjectBodyUsedAsIs ==
  \A i \in 1..NumInv :
    (Done(i) /\ IsPost(i) /\ HeadersDocumented(inv[i].event) /\ IsDict(RawBody(i)))
    => inv[i].call = lambda_handler(WithTextBody(inv[i].event))

\* the request names no filter
NoFilters(i) == ~Truthy(DictGet(inv[i].event, "queryStringParameters", PyNone))

BodyObject(ev) ==
  LET raw == DictGet(ev, "body", PyNone) IN
    IF IsStr(raw) /\ JsonLoads(raw.str).ok /\ IsDict(JsonLoads(raw.str).val)
    THEN JsonLoads(raw.str).val ELSE PyDict(<<>>)

PostOf(ev, operation) ==
  /\ IsDict(ev) /\ DictGet(ev, "httpMethod", PyStr(<<"GET">>)) = PyStr(<<"POST">>)
  /\ DictGet(BodyObject(ev), "operation", PyStr(<<"create">>)) = PyStr(operation)

\* a POST that asks for the creation of a gearbox and names the four
\* required fields, each a non-empty string
IsValidCreate(ev) ==
  /\ PostOf(ev, <<"create">>) /\ HeadersDocumented(ev)
  /\ Truthy(BodyObject(ev))
  /\ LET g == DictGet(BodyObject(ev), "gearbox", PyNone) IN
       /\ IsDict(g)
       /\ \A f \in {"gearbox_id", "model_name", "manufacturer", "gearbox_type"} :
            IsStr(DictGet(g, f, PyNone)) /\ Truthy(DictGet(g, f, PyNone))

\* the id a request names: in gearbox.gearbox_id for a create, in gearbox_id
\* for an update or a delete
CreateId(ev) ==
  LET gearbox == DictGet(BodyObject(ev), "gearbox", PyDict(<<>>)) IN
    IF IsDict(gearbox) THEN DictGet(gearbox, "gearbox_id", PyNone) ELSE PyNone
TargetId(ev) == DictGet(BodyObject(ev), "gearbox_id", PyNone)
IsUpdate(ev) == PostOf(ev, <<"update">>)
IsDelete(ev) == PostOf(ev, <<"delete">>)

\* the table holds an item gearbox#<id>
Holds(t, id) == \E it \in t : it.PK.S = GearboxPrefix \o id.str

IsGearboxItem(it) == StartsWith(it.PK.S, GearboxPrefix)

\* the gearboxes a 200 response of a GET lists
Gearboxes(resp) == DictGet(JsonLoads(resp.body).val, "gearboxes", PyList(<<>>)).list

Lists(resp, pk) ==
  \E n \in 1..Len(Gearboxes(resp)) : DictGet(Gearboxes(resp)[n], "PK", PyNone) = PyStr(pk)

\* a GET without filters
IsUnfilteredGet(ev) ==
  /\ IsDict(ev) /\ DictGet(ev, "httpMethod", PyStr(<<"GET">>)) = PyStr(<<"GET">>)
  /\ ~Truthy(DictGet(ev, "queryStringParameters", PyNone))

\* slot i has handled a whole request in this step
Answered(i) == inv[i].pc = "idle" /\ inv'[i].pc = "done"

\* C7: a valid create of an id the table does not hold returns 201 and
\* stores the item; the item stays until a delete of that id returns 200;
\* every unfiltered GET answered 200 lists every gearbox the table holds; and
\* a create of an id the table holds returns 409 "Gearbox with this ID
\* already exists" and leaves the table as it is (store faults apart)
C7_CreatedThenListed ==
  [][\A i \in 1..NumInv : Answered(i) =>
       /\ IsValidCreate(inv'[i].event) /\ inv'[i].env.fault = "none" =>
            IF ~Holds(table, CreateId(inv'[i].event))
            THEN /\ inv'[i].resp.statusCode = 201
                 /\ Holds(table', CreateId(inv'[i].event))
            ELSE /\ inv'[i].resp.statusCode = 409
                 /\ ErrorOf(inv'[i].resp) = PyStr(<<"Gearbox with this ID already exists">>)
                 /\ table' = table
       /\ \A it \in table :
            IsGearboxItem(it) /\ ItemsAt(table', KeyOf(it)) = {} =>
              /\ IsDelete(inv'[i].event) /\ inv'[i].resp.statusCode = 200
              /\ it.PK.S = GearboxPrefix \o Str(TargetId(inv'[i].event))
       /\ IsUnfilteredGet(inv'[i].event) /\ inv'[i].resp.statusCode = 200 =>
            \A it \in table' : IsGearboxItem(it) => Lists(inv'[i].resp, it.PK.S)
  ]_vars

\* an unfiltered GET lists gearbox#g1, which no initial table holds
C7_Witness ==
  /\ Done(1) /\ IsUnfilteredGet(inv[1].event) /\ Status(1) = 200
  /\ Lists(inv[1].resp, GearboxPrefix \o Id1)

(***************************************************************************)
(* Properties of concurrent mutations (SpecRace): no slot is used twice,   *)
(* so the finished slots are all the invocations made so far.              *)
(***************************************************************************)
\* invocation i has made its store call for the key, without a store fault
Wrote(i, kind, key) ==
  /\ Done(i) /\ inv[i].call.kind = kind /\ inv[i].env.fault = "none"
  /\ key = IF kind = "put_item" THEN KeyOf(inv[i].call.Item) ELSE inv[i].call.Key

Succeeded(i, kind, key) == Wrote(i, kind, key) /\ Status(i) \in {200, 201}

Key1 == GearboxKey(PyStr(Id1))

\* C8: of the creates of gearbox#g1 (which no initial table holds) that
\* have made their store call, with no delete of it so far, exactly one got
\* 201 and every other 409; the table holds the item of the one that got 201
\* until an update changes it
C8_OneCreateWins ==
  LET creates == {i \in 1..NumInv : Wrote(i, "put_item", Key1)}
      winners == {i \in creates : Status(i) = 201}
  IN (creates # {} /\ \A j \in 1..NumInv : ~Succeeded(j, "delete_item", Key1))
     => /\ Cardinality(winners) = 1
        /\ \A i \in creates \ winners :
             Status(i) = 409 /\ HasError(i, <<"Gearbox with this ID already exists">>)
        /\ (\A j \in 1..NumInv : ~Succeeded(j, "update_item", Key1))
             => \A w \in winners : ItemsAt(table, Key1) = {inv[w].call.Item}

\* two creates of gearbox#g1 with different items: one got 201, one 409
C8_Witness ==
  \E i, j \in 1..NumInv :
    /\ Wrote(i, "put_item", Key1) /\ Wrote(j, "put_item", Key1)
    /\ inv[i].call.Item # inv[j].call.Item
    /\ Status(i) = 201 /\ Status(j) = 409
    /\ ItemsAt(table, Key1) = {inv[i].call.Item}

\* two deletes of one key have both got 200 only if a create of it got 201
DeletesNeedCreate ==
  \A i, j \in 1..NumInv :
    (/\ i # j /\ inv[i].call.kind = "delete_item"
     /\ Succeeded(i, "delete_item", inv[i].call.Key)
     /\ Succeeded(j, "delete_item", inv[i].call.Key))
    => \E c \in 1..NumInv : Succeeded(c, "put_item", inv[i].call.Key)

\* C9: an update or a delete that makes its store call when the item is
\* not in the table gets 404 "Gearbox not found" and leaves the table as it
\* is (it does not bring the item back); two deletes of one item never both
\* get 200
C9_LoserSeesNotFound ==
  [][/\ \A i \in 1..NumInv :
          (/\ inv[i].pc = "call" /\ inv'[i].pc = "done"
           /\ inv[i].call.kind \in {"update_item", "delete_item"}
           /\ inv'[i].env.fault = "none"
           /\ ItemsAt(table, inv[i].call.Key) = {})
          => /\ inv'[i].resp.statusCode = 404
             /\ ErrorOf(inv'[i].resp) = PyStr(<<"Gearbox not found">>)
             /\ table' = table
     /\ DeletesNeedCreate'
  ]_vars

\* a delete got 200 and an update of the same item, called after it, got 404
C9_Witness ==
  \E i, j \in 1..NumInv :
    /\ Succeeded(i, "delete_item", GearboxKey(PyStr(Id2)))
    /\ Wrote(j, "update_item", GearboxKey(PyStr(Id2))) /\ Status(j) = 404
    /\ ItemsAt(table, GearboxKey(PyStr(Id2))) = {}

\* one item per partition key, and every gearbox item under the key built
\* from its gearbox_id
KeysWellFormed ==
  /\ \A a, b \in table : a.PK = b.PK => a = b
  /\ \A it \in table : IsGearboxItem(it) =>
       /\ it.PK.S = GearboxPrefix \o it.gearbox_id.S
       /\ it.SK.S = <<"metadata">>

\* PK, SK and gearbox_id of an item
Identity(it) ==
  <<it.PK, it.SK, IF "gearbox_id" \in DOMAIN it THEN it.gearbox_id ELSE [S |-> <<>>]>>

\* C10: after every request the table holds at most one item per partition
\* key and every gearbox item has PK = "gearbox#" + gearbox_id and SK =
\* "metadata"; an update, also one that names PK, SK or gearbox_id, leaves
\* PK, SK and gearbox_id of every item as they were
C10_KeysKept ==
  [][/\ KeysWellFormed'
     /\ \A i \in 1..NumInv : Answered(i) /\ IsUpdate(inv'[i].event) =>
          {Identity(it) : it \in table'} = {Identity(it) : it \in table}
  ]_vars

\* an update that names PK, SK and gearbox_id has changed gearbox#g1
C10_Witness ==
  /\ Done(1) /\ IsUpdate(inv[1].event) /\ Status(1) = 200
  /\ HasKey(DictGet(BodyObject(inv[1].event), "updates", PyDict(<<>>)), "gearbox_id")
  /\ \E it \in table : /\ it.PK.S = GearboxPrefix \o Id1
                       /\ "updated_at" \in DOMAIN it
                       /\ it.model_name.S = ModelZ

(***************************************************************************)
(* Properties of the validation and of the outcome of the mutations        *)
(***************************************************************************)
\* the updates mapping of an update request
UpdatesOf(ev) == DictGet(BodyObject(ev), "updates", PyDict(<<>>))

\* the keys of a mapping that are not protected fields
FreeKeys(updates) ==
  {updates.dict[n][1] : n \in {k \in 1..Len(updates.dict) :
                                 updates.dict[k][1] \notin {"PK", "SK", "gearbox_id"}}}

\* an update or a delete that passes the validation of the handler and whose
\* write the store has no reason to refuse but the condition: the id is a
\* non-empty string, an update names a field that is not protected, its
\* values are strings and JSON numbers, and it does not name updated_at
IsPlainWrite(ev) ==
  /\ IsDelete(ev) \/ IsUpdate(ev)
  /\ HeadersDocumented(ev)
  /\ IsStr(TargetId(ev)) /\ Truthy(TargetId(ev))
  /\ \/ IsDelete(ev)
     \/ /\ IsUpdate(ev)
        /\ IsDict(UpdatesOf(ev)) /\ FreeKeys(UpdatesOf(ev)) # {}
        /\ "updated_at" \notin FreeKeys(UpdatesOf(ev))
        /\ \A n \in 1..Len(UpdatesOf(ev).dict) :
             LET v == UpdatesOf(ev).dict[n][2] IN IsStr(v) \/ IsInt(v) \/ IsFloat(v)

GearboxOf(ev) == DictGet(BodyObject(ev), "gearbox", PyDict(<<>>))

IsMissing(ev, field) == ~Truthy(DictGet(GearboxOf(ev), field, PyNone))

\* a create with a body and a gearbox object (or none) that lacks a required field
IsCreateMissing(ev) ==
  /\ PostOf(ev, <<"create">>) /\ HeadersDocumented(ev)
  /\ Truthy(BodyObject(ev)) /\ IsDict(GearboxOf(ev))
  /\ \E n \in 1..4 : IsMissing(ev, required_fields[n])

\* the first of gearbox_id, model_name, manufacturer, gearbox_type the create lacks
FirstMissing(ev) ==
  required_fields[CHOOSE n \in 1..4 :
                    /\ IsMissing(ev, required_fields[n])
                    /\ \A k \in 1..(n - 1) : ~IsMissing(ev, required_fields[k])]

\* C12: a create in which any of gearbox_id, model_name, manufacturer,
\* gearbox_type is absent or empty returns 400 "Missing required field:
\* <name>", <name> the first missing one in that order, and issues no write
C12_MissingFieldRefused ==
  [][\A i \in 1..NumInv :
       (Answered(i) /\ IsCreateMissing(inv'[i].event)) =>
         /\ inv'[i].resp.statusCode = 400
         /\ ErrorOf(inv'[i].resp)
              = PyStr(<<"Missing required field: ">> \o <<FirstMissing(inv'[i].event)>>)
         /\ inv'[i].call.kind = "return"
         /\ table' = table
  ]_vars

\* a create lacking model_name, manufacturer and gearbox_type, the last one
\* named first in the body, has been refused for model_name
C12_Witness ==
  /\ Done(1) /\ IsCreateMissing(inv[1].event)
  /\ IsMissing(inv[1].event, "gearbox_type") /\ IsMissing(inv[1].event, "manufacturer")
  /\ DictKeys(GearboxOf(inv[1].event))[1] = "gearbox_type"
  /\ ErrorOf(inv[1].resp) = PyStr(<<"Missing required field: ", "model_name">>)


\* the handler answered 400 with the message before any store call
Refused(slot, message) ==
  /\ slot.resp.statusCode = 400 /\ ErrorOf(slot.resp) = PyStr(<<message>>)
  /\ slot.call.kind = "return"

\* what the validation of an update has to answer: "" when it passes
UpdateRefusal(id, updates) ==
  IF ~Truthy(id) THEN "gearbox_id is required for updates"
  ELSE IF ~Truthy(updates) THEN "No updates provided"
  ELSE IF IsDict(updates) /\ FreeKeys(updates) = {} THEN "No valid fields to update"
  ELSE ""

\* C13: an update is validated in this order before any store call: no or
\* empty gearbox_id gives 400 "gearbox_id is required for updates"; else no
\* or empty updates gives 400 "No updates provided"; else only protected
\* keys gives 400 "No valid fields to update"; no store operation is issued
C13_UpdateValidatedInOrder ==
  [][\A i \in 1..NumInv :
       (/\ Answered(i) /\ IsUpdate(inv'[i].event) /\ HeadersDocumented(inv'[i].event)
        /\ UpdateRefusal(TargetId(inv'[i].event), UpdatesOf(inv'[i].event)) # "") =>
         /\ Refused(inv'[i], UpdateRefusal(TargetId(inv'[i].event), UpdatesOf(inv'[i].event)))
         /\ table' = table
  ]_vars

\* an update with an empty id and empty updates has been refused for its id
C13_Witness ==
  /\ Done(1) /\ IsUpdate(inv[1].event) /\ HeadersDocumented(inv[1].event)
  /\ HasKey(BodyObject(inv[1].event), "gearbox_id")
  /\ ~Truthy(TargetId(inv[1].event)) /\ ~Truthy(UpdatesOf(inv[1].event))
  /\ Refused(inv[1], "gearbox_id is required for updates")


\* number-tagged exactly for a JSON number, string-tagged with the string
\* form for every other value
TagOfJsonType(value) ==
  IF IsInt(value) \/ IsFloat(value) THEN [N |-> Str(value)] ELSE [S |-> Str(value)]

\* C14: for every non-protected field of an update the value sent to the
\* store is number-tagged exactly when the input value is a JSON number
\* (integer or float); a string, boolean, null, list or map is sent
\* string-tagged with its string form
C14_NumberTaggedIffJsonNumber ==
  \A i \in 1..NumInv :
    (Done(i) /\ inv[i].call.kind = "update_item") =>
      \A n \in 1..Len(UpdatesOf(inv[i].event).dict) :
        UpdatesOf(inv[i].event).dict[n][1] \notin {"PK", "SK", "gearbox_id"} =>
          \E k \in 1..Len(inv[i].call.sets) :
            /\ inv[i].call.sets[k][1] = UpdatesOf(inv[i].event).dict[n][1]
            /\ inv[i].call.sets[k][2] = TagOfJsonType(UpdatesOf(inv[i].event).dict[n][2])


\* a POST with a non-empty body object
IsPostWithBody(ev) ==
  /\ IsDict(ev) /\ DictGet(ev, "httpMethod", PyStr(<<"GET">>)) = PyStr(<<"POST">>)
  /\ HeadersDocumented(ev) /\ Truthy(BodyObject(ev))

\* the operation a body names: <<>> when it has no operation field
NamedOperation(body) ==
  IF HasKey(body, "operation") THEN <<DictGet(body, "operation", PyNone)>> ELSE <<>>

\* what the handler did is what the operation the body selects does
Selected(slot, body, op) ==
  IF op = <<>> \/ op = <<PyStr(<<"create">>)>> THEN slot.call = create_gearbox(body)
  ELSE IF op = <<PyStr(<<"update">>)>> THEN slot.call = update_gearbox(body)
  ELSE IF op = <<PyStr(<<"delete">>)>> THEN slot.call = delete_gearbox(body)
  ELSE /\ slot.resp.statusCode = 400 /\ slot.call.kind = "return"
       /\ ErrorOf(slot.resp) = PyStr(<<"Unknown operation: ">> \o Str(op[1]))

CallError(call, t, env) ==
  IF env.fault # "none" THEN env.fault
  ELSE IF call.kind = "put_item" THEN PutItem(t, call.Item).error
  ELSE IF call.kind = "update_item" THEN UpdateItem(t, call.Key, call.sets).error
  ELSE DeleteItem(t, call.Key).error

IsMutation(call) == call.kind \in {"put_item", "update_item", "delete_item"}

OperationMessage(call) ==
  IF call.kind = "put_item" THEN "Failed to create gearbox"
  ELSE IF call.kind = "update_item" THEN "Failed to update gearbox"
  ELSE "Failed to delete gearbox"

Is500(resp, message) == resp.statusCode = 500 /\ ErrorOf(resp) = PyStr(<<message>>)

\* the response to a mutation whose store call met error e, with every
\* fault answered by the message of the operation
MutationFaultNamed(slot, e) ==
  /\ e \notin {"none", "ConditionalCheckFailedException"} =>
       Is500(slot.resp, OperationMessage(slot.call))
  /\ e = "ConditionalCheckFailedException" => slot.resp.statusCode \in {404, 409}

\* the response to a GET whose scans ended as scanned, with every fault
\* answered by "Database operation failed"
ScanFaultNamed(slot, scanned) ==
  scanned.error # "none" =>
    Is500(slot.resp, "Database operation failed") /\ scanned.calls = slot.env.faultAt

\* C16 as stated: every fault of a store call that is not a condition
\* failure is answered 500 in the same invocation without a retry, with
\* "Failed to create gearbox", "Failed to update gearbox" or "Failed to
\* delete gearbox" for a mutation and "Database operation failed" for the
\* scan of a GET; a condition failure is never answered 500
C16_EveryFaultNamed ==
  [][\A i \in 1..NumInv : Answered(i) =>
       /\ IsMutation(inv'[i].call) =>
            /\ MutationFaultNamed(inv'[i], CallError(inv'[i].call, table, inv'[i].env))
            /\ CallError(inv'[i].call, table, inv'[i].env) # "none" => table' = table
       /\ inv'[i].call.kind = "scan" =>
            ScanFaultNamed(inv'[i], ScanLoop(table, <<>>, <<>>, 0, inv'[i].env))
  ]_vars

\* the same with the faults told apart by their class
MutationFaultHandled(slot, e) ==
  /\ e \in ClientErrorCodes \ {"ConditionalCheckFailedException"} =>
       Is500(slot.resp, OperationMessage(slot.call))
  /\ e \notin ClientErrorCodes \cup {"none"} => Is500(slot.resp, "Internal server error")
  /\ e = "ConditionalCheckFailedException" => slot.resp.statusCode \in {404, 409}

ScanFaultHandled(slot, scanned) ==
  /\ scanned.error \in ClientErrorCodes => Is500(slot.resp, "Database operation failed")
  /\ scanned.error \notin ClientErrorCodes \cup {"none"} =>
       Is500(slot.resp, "Internal server error.")
  /\ scanned.error # "none" => scanned.calls = slot.env.faultAt

\* C16 amended: a ClientError of the store that is not a condition failure is
\* answered 500 in the same invocation, after that one call and with the
\* table unchanged, with the message of the operation for a mutation and
\* "Database operation failed" for a scan; an exception of the store call
\* that is not a ClientError is answered 500 "Internal server error" for a
\* mutation and "Internal server error." for a scan; a condition failure is
\* answered 404 or 409, never 500
C16_FaultsAnswered500 ==
  [][\A i \in 1..NumInv : Answered(i) =>
       /\ IsMutation(inv'[i].call) =>
            /\ MutationFaultHandled(inv'[i], CallError(inv'[i].call, table, inv'[i].env))
            /\ CallError(inv'[i].call, table, inv'[i].env) # "none" => table' = table
       /\ inv'[i].call.kind = "scan" =>
            ScanFaultHandled(inv'[i], ScanLoop(table, <<>>, <<>>, 0, inv'[i].env))
  ]_vars

\* a delete met a throttling ClientError and answered "Failed to delete gearbox"
C16_Witness ==
  /\ Done(1) /\ inv[1].call.kind = "delete_item"
  /\ inv[1].env.fault = "ProvisionedThroughputExceededException"
  /\ Is500(inv[1].resp, "Failed to delete gearbox")


(***************************************************************************)
(* Properties of the GET                                                   *)
(***************************************************************************)
\* the pages a store holding n items answers with when a page holds at most
\* limit items
PagesNeeded(n, limit) == IF n = 0 THEN 1 ELSE (n + limit - 1) \div limit

IsGetEvent(ev) ==
  IsDict(ev) /\ DictGet(ev, "httpMethod", PyStr(<<"GET">>)) = PyStr(<<"GET">>)

\* a list of the body of a response
ListOf(resp, name) == DictGet(JsonLoads(resp.body).val, name, PyList(<<>>)).list

\* the partition keys of the listed items, in the order of the list
KeysOf(listed) == [n \in 1..Len(listed) |-> DictGet(listed[n], "PK", PyNone).str]

\* the partition keys with the prefix among the scanned items, in scan order
KeysWith(scanned, prefix) ==
  SelectSeq([n \in 1..Len(scanned) |-> scanned[n].PK.S], LAMBDA pk : StartsWith(pk, prefix))

\* the scan that faults among the pages of the table t, if any
FaultsWithin(t, env) ==
  env.fault # "none" /\ env.faultAt <= PagesNeeded(Cardinality(t), env.limit)

\* what a GET without filters has to answer against table t
AllPagesListed(slot, t, scanned) ==
  IF FaultsWithin(t, slot.env)
  THEN /\ slot.resp.statusCode = 500
       /\ ListOf(slot.resp, "categories") = <<>> /\ ListOf(slot.resp, "gearboxes") = <<>>
       /\ scanned.calls = slot.env.faultAt /\ scanned.items = <<>>
  ELSE /\ slot.resp.statusCode = 200
       /\ scanned.calls = PagesNeeded(Cardinality(t), slot.env.limit)
       /\ scanned.items = ItemsFrom(t, 1)
       /\ KeysOf(ListOf(slot.resp, "gearboxes")) = KeysWith(ItemsFrom(t, 1), GearboxPrefix)
       /\ KeysOf(ListOf(slot.resp, "categories")) = KeysWith(ItemsFrom(t, 1), CategoryPrefix)

\* C17: get_all_gearboxes follows the continuation tokens until a page
\* without one arrives: one scan per page, each started after the last key
\* of the page before, and the items of all pages returned in page order;
\* if the scan of any page faults nothing is returned and the GET answers 500
C17_AllPagesFollowed ==
  [][\A i \in 1..NumInv :
       (/\ Answered(i) /\ IsUnfilteredGet(inv'[i].event)
        /\ inv'[i].call.kind = "scan") =>
         /\ AllPagesListed(inv'[i], table, ScanLoop(table, <<>>, <<>>, 0, inv'[i].env))
         /\ table' = table
  ]_vars

\* a GET has read three items in three pages of one item and lists the two
\* gearboxes, which came in the first and in the last page
C17_Witness ==
  /\ Done(1) /\ IsUnfilteredGet(inv[1].event) /\ Status(1) = 200
  /\ Cardinality(table) = 3 /\ inv[1].env.limit = 1
  /\ ScanLoop(table, <<>>, <<>>, 0, inv[1].env).calls = 3
  /\ KeysOf(ListOf(inv[1].resp, "gearboxes")) = <<GearboxPrefix \o Id2, GearboxPrefix \o Id1>>


\* the mapping a GET supplies: a dict, empty when queryStringParameters is
\* null, absent or empty
Supplied(ev) ==
  IF Truthy(DictGet(ev, "queryStringParameters", PyNone))
  THEN DictGet(ev, "queryStringParameters", PyNone) ELSE PyDict(<<>>)

\* a GET whose query parameters, if any, are a mapping of strings
IsQuery(ev) ==
  /\ IsGetEvent(ev) /\ HeadersDocumented(ev) /\ IsDict(Supplied(ev))
  /\ \A n \in 1..Len(Supplied(ev).dict) : IsStr(Supplied(ev).dict[n][2])

Field(resp, name) == DictGet(JsonLoads(resp.body).val, name, PyStr(<<"absent">>))

\* the message and the filters_applied of a catalog for the supplied mapping
Describes(resp, supplied) ==
  IF supplied.dict = <<>>
  THEN /\ Field(resp, "message") = PyStr(<<"Gearbox Catalog", " - All Items">>)
       /\ Field(resp, "filters_applied") = PyNone
  ELSE /\ Field(resp, "message")
            = PyStr(<<"Gearbox Catalog", " (Filtered by: ">> \o JoinParams(supplied.dict)
                    \o <<")">>)
       /\ Field(resp, "filters_applied") = supplied

\* C18: every GET the store serves without fault returns 200, also when the
\* filtered result is empty; without query parameters the message is "Gearbox
\* Catalog - All Items" and filters_applied is null, otherwise the message is
\* "Gearbox Catalog (Filtered by: k1=v1, k2=v2, ...)" in the order of the
\* mapping and filters_applied is the mapping
C18_GetAlways200 ==
  [][\A i \in 1..NumInv :
       (/\ Answered(i) /\ IsQuery(inv'[i].event)
        /\ inv'[i].call.kind = "scan" /\ ~FaultsWithin(table, inv'[i].env)) =>
         /\ inv'[i].resp.statusCode = 200
         /\ Describes(inv'[i].resp, Supplied(inv'[i].event))
  ]_vars


Summary(resp, name) == DictGet(Field(resp, "summary"), name, PyNone)

\* the partition keys of the items the filters of a finished GET retain
Retained(t, slot) ==
  KeysOf(filter_items(get_all_gearboxes(t, slot.env).items, slot.call.query_params).list)

\* the two lists and the summary of a response against the retained keys
Partitions(resp, categories, gearboxes, retained) ==
  /\ \A n \in 1..Len(categories) : StartsWith(categories[n], CategoryPrefix)
  /\ \A n \in 1..Len(gearboxes) : StartsWith(gearboxes[n], GearboxPrefix)
  /\ \A n \in 1..Len(retained) :
       Cardinality({k \in 1..Len(categories) : categories[k] = retained[n]})
       + Cardinality({k \in 1..Len(gearboxes) : gearboxes[k] = retained[n]}) = 1
  /\ Len(categories) + Len(gearboxes) = Len(retained)
  /\ Summary(resp, "total_items") = PyInt(Len(categories) + Len(gearboxes))
  /\ Summary(resp, "total_items") = PyInt(Len(retained))
  /\ Summary(resp, "categories") = PyInt(Len(categories))
  /\ Summary(resp, "gearbox_products") = PyInt(Len(gearboxes))

PlanetaryItem ==
  [PK |-> [S |-> GearboxPrefix \o Id1], SK |-> [S |-> <<"metadata">>],
   gearbox_id |-> [S |-> Id1], model_name |-> [S |-> ModelX],
   manufacturer |-> [S |-> Acme], gearbox_type |-> [S |-> Planetary],
   application_type |-> [S |-> Automotive], price_range |-> [S |-> <<"h", "i", "g", "h">>],
   torque_rating |-> [N |-> <<"1", "0", "0">>],
   performance_rating |-> [N |-> <<"4", ".", "5">>],
   created_at |-> [S |-> DEFAULT_TIMESTAMP]]

\* a gearbox whose torque_rating an update has set to a text
TextRatedItem ==
  [PK |-> [S |-> GearboxPrefix \o <<"g", "3">>], SK |-> [S |-> <<"metadata">>],
   gearbox_id |-> [S |-> <<"g", "3">>], model_name |-> [S |-> ModelZ],
   manufacturer |-> [S |-> Acme], gearbox_type |-> [S |-> Helical],
   torque_rating |-> [S |-> <<"h", "i", "g", "h">>],
   created_at |-> [S |-> DEFAULT_TIMESTAMP]]

\* an item that is neither a category nor a gearbox
OtherItem ==
  [PK |-> [S |-> <<"n", "o", "t", "e", "#", "1">>], SK |-> [S |-> <<"metadata">>],
   created_at |-> [S |-> DEFAULT_TIMESTAMP]]

FilterTables == SUBSET {CategoryItem, SeededItem, PlanetaryItem, TextRatedItem, OtherItem}

\* one query parameter each
FilterPairs ==
  { <<"category", PyStr(<<"A", "U", "T", "O">>)>>, <<"type", PyStr(<<"H", "E", "L", "I", "C", "A", "L">>)>>,
    <<"type", PyStr(<<"p", "l", "a", "n", "e", "t">>)>>,
    <<"manufacturer", PyStr(<<"a", "c">>)>>, <<"price_range", PyStr(<<"H", "i", "g", "h">>)>>,
    <<"min_torque", PyStr(<<"6", "0">>)>>, <<"min_torque", PyStr(<<"a", "b", "c">>)>>,
    <<"min_torque", PyStr(<<"0">>)>>,
    <<"min_performance", PyStr(<<"4", ".", "5">>)>>,
    <<"min_performance", PyStr(<<"n", "/", "a">>)>>, <<"sort", PyStr(<<"a", "s", "c">>)>> }

\* the mappings of at most two of them, in either order of the keys
FilterChoices ==
  {<<>>} \cup {<<p>> : p \in FilterPairs}
  \cup {<<pq[1], pq[2]>> : pq \in {r \in FilterPairs \X FilterPairs : r[1][1] # r[2][1]}}

Reverse(s) == [n \in 1..Len(s) |-> s[Len(s) + 1 - n]]

InitFilter ==
  /\ table \in FilterTables
  /\ inv = [i \in 1..NumInv |-> Idle]

\* filter_items(items, filters) for the items of the table
ApplyFilter(i, filters, reversed) ==
  /\ inv[i].pc = "idle"
  /\ \E scanned \in {get_all_gearboxes(table, NoEnv).items} :
       \E items \in {IF reversed THEN Reverse(scanned) ELSE scanned} :
         inv' = [inv EXCEPT ![i] =
                   [pc |-> "done", event |-> PyDict(filters),
                    call |-> [kind |-> "filter_items", items |-> items],
                    env |-> NoEnv, resp |-> filter_items(items, PyDict(filters))]]
  /\ UNCHANGED table

NextFilter ==
  \/ \E filters \in FilterChoices, reversed \in BOOLEAN : ApplyFilter(1, filters, reversed)
  \/ Deliver(1)

SpecFilter == InitFilter /\ [][NextFilter]_vars

TextOf(item, field) == Lower(DictGet(item, field, PyStr(<<>>)).str)

\* the rating of the item is not below the minimum; a value that is not a
\* number constrains nothing
AtLeast(minimum, rating) ==
  ~minimum.ok \/ ~rating.ok \/ ~FloatLess(rating.val, minimum.val)

\* the predicate of one filter key on one item
Satisfies(item, key, value) ==
  IF key = "category"
  THEN IF StartsWith(TextOf(item, "PK"), CategoryPrefix)
       THEN Contains(TextOf(item, "PK"), Lower(value.str))
       ELSE IF StartsWith(TextOf(item, "PK"), GearboxPrefix)
       THEN \/ Contains(TextOf(item, "application_type"), Lower(value.str))
            \/ Contains(TextOf(item, "gearbox_type"), Lower(value.str))
       ELSE TRUE
  ELSE IF key = "type" THEN TextOf(item, "gearbox_type") = Lower(value.str)
  ELSE IF key = "manufacturer" THEN Contains(TextOf(item, "manufacturer"), Lower(value.str))
  ELSE IF key = "price_range" THEN TextOf(item, "price_range") = Lower(value.str)
  ELSE IF key = "min_torque"
  THEN AtLeast(ParseFloat(value.str), ToFloat(DictGet(item, "torque_rating", PyInt(0))))
  ELSE IF key = "min_performance"
  THEN AtLeast(ParseFloat(value.str), ToFloat(DictGet(item, "performance_rating", PyInt(0))))
  ELSE TRUE

\* the items that satisfy every filter, in the order of the items
Satisfying(items, filters) ==
  SelectSeq(items, LAMBDA item :
    \A n \in 1..Len(filters) : Satisfies(item, filters[n][1], filters[n][2]))

\* C20: filter_items(items, filters) returns, in input order and unmodified,
\* exactly the items that satisfy every recognized key of filters, whatever
\* the order of the keys; unrecognized keys constrain nothing, so with empty
\* filters or only unrecognized keys the result is items
C20_FilterIsConjunction ==
  \A i \in 1..NumInv :
    (Done(i) /\ inv[i].call.kind = "filter_items") =>
      /\ inv[i].resp = PyList(Satisfying(inv[i].call.items, inv[i].event.dict))
      /\ inv[i].resp = filter_items(inv[i].call.items, PyDict(Reverse(inv[i].event.dict)))
      /\ (\A n \in 1..Len(inv[i].event.dict) : inv[i].event.dict[n][1] = "sort") =>
           inv[i].resp = PyList(inv[i].call.items)

\* two recognized filters have kept the last of three items only
C20_Witness ==
  /\ Done(1) /\ inv[1].call.kind = "filter_items"
  /\ Len(inv[1].event.dict) = 2
  /\ \A n \in 1..2 : inv[1].event.dict[n][1] # "sort"
  /\ Len(inv[1].call.items) = 3
  /\ inv[1].resp = PyList(<<inv[1].call.items[3]>>)


(***************************************************************************)
(* Properties of the single filters (SpecFilter)                           *)
(***************************************************************************)
\* slot i holds the result of a filter_items call
Filtered(i) == Done(i) /\ inv[i].call.kind = "filter_items"

\* the value the filters give for a key: <<>> when the key is not supplied
ValueOf(filters, key) ==
  [n \in 1..Cardinality({k \in 1..Len(filters) : filters[k][1] = key}) |->
     filters[CHOOSE k \in 1..Len(filters) : filters[k][1] = key][2]]

\* the items of a list that are in the result
Kept(result, item) == \E n \in 1..Len(result.list) : result.list[n] = item

\* every kept item has the gearbox_type of the filter, letter case apart, and
\* with no other filter every such item is kept
TypeFiltered(items, filters, result, type) ==
  /\ \A n \in 1..Len(items) :
       Kept(result, items[n]) =>
         /\ HasKey(items[n], "gearbox_type")
         /\ Lower(DictGet(items[n], "gearbox_type", PyNone).str) = Lower(type.str)
  /\ Len(filters) = 1 =>
       \A n \in 1..Len(items) :
         (/\ HasKey(items[n], "gearbox_type")
          /\ Lower(DictGet(items[n], "gearbox_type", PyNone).str) = Lower(type.str))
           => Kept(result, items[n])

\* C21: with a type filter filter_items retains only the items whose
\* gearbox_type equals the filter value, letter case apart; an item whose
\* gearbox_type only contains the value, and an item without gearbox_type,
\* are excluded
C21_TypeIsEquality ==
  \A i \in 1..NumInv :
    (Filtered(i) /\ ValueOf(inv[i].event.dict, "type") # <<>>) =>
      TypeFiltered(inv[i].call.items, inv[i].event.dict, inv[i].resp,
                   ValueOf(inv[i].event.dict, "type")[1])

\* the filter "planet" alone has excluded a planetary gearbox and a category
C21_Witness ==
  /\ Filtered(1) /\ inv[1].event.dict = << <<"type", PyStr(<<"p", "l", "a", "n", "e", "t">>)>> >>
  /\ Len(inv[1].call.items) = 3 /\ inv[1].resp = PyList(<<>>)

\* the rating of an item, 0 when the field is absent or is not a number
RatingOrZero(item, field) ==
  IF ToFloat(DictGet(item, field, PyInt(0))).ok
  THEN ToFloat(DictGet(item, field, PyInt(0))).val ELSE [m |-> 0, e |-> 0]

\* the kept items are those rated at least the minimum, alone or among the
\* items the other filter leaves
MinimumFiltered(items, filters, result, field, minimum) ==
  /\ \A n \in 1..Len(items) :
       Kept(result, items[n]) => ~FloatLess(RatingOrZero(items[n], field), minimum)
  /\ Len(filters) = 1 =>
       \A n \in 1..Len(items) :
         ~FloatLess(RatingOrZero(items[n], field), minimum) => Kept(result, items[n])

NumericValue(filters, key) ==
  ValueOf(filters, key) # <<>> /\ ParseFloat(ValueOf(filters, key)[1].str).ok

\* C22: with a numeric min_torque V (likewise min_performance against
\* performance_rating) filter_items retains exactly the items whose rating is
\* at least V, a rating that is absent or not a number counting as 0
C22_MinimumCountsMissingAsZero ==
  \A i \in 1..NumInv : Filtered(i) =>
    /\ NumericValue(inv[i].event.dict, "min_torque") =>
         MinimumFiltered(inv[i].call.items, inv[i].event.dict, inv[i].resp, "torque_rating",
                         ParseFloat(ValueOf(inv[i].event.dict, "min_torque")[1].str).val)
    /\ NumericValue(inv[i].event.dict, "min_performance") =>
         MinimumFiltered(inv[i].call.items, inv[i].event.dict, inv[i].resp,
                         "performance_rating",
                         ParseFloat(ValueOf(inv[i].event.dict, "min_performance")[1].str).val)

\* the filters without the key
Without(filters, key) == SelectSeq(filters, LAMBDA kv : kv[1] # key)

NotNumericValue(filters, key) ==
  ValueOf(filters, key) # <<>> /\ ~ParseFloat(ValueOf(filters, key)[1].str).ok

\* the result is a list, the one the filters without the key give
Skipped(items, filters, result, key) ==
  /\ ~IsRaised(result)
  /\ result = filter_items(items, PyDict(Without(filters, key)))

\* C23: when the value of min_torque or min_performance is not numeric the
\* filter is skipped for every item: the result is that of the filters
\* without the key, whatever the ratings of the items, and no error is raised
C23_InvalidMinimumSkipped ==
  \A i \in 1..NumInv : Filtered(i) =>
    /\ NotNumericValue(inv[i].event.dict, "min_torque") =>
         Skipped(inv[i].call.items, inv[i].event.dict, inv[i].resp, "min_torque")
    /\ NotNumericValue(inv[i].event.dict, "min_performance") =>
         Skipped(inv[i].call.items, inv[i].event.dict, inv[i].resp, "min_performance")

\* min_torque "abc" alone has kept all the items of a table of four
C23_Witness ==
  /\ Filtered(1) /\ inv[1].event.dict = << <<"min_torque", PyStr(<<"a", "b", "c">>)>> >>
  /\ Len(inv[1].call.items) = 4 /\ inv[1].resp = PyList(inv[1].call.items)

\* what the category c asks of an item
InCategory(item, c) ==
  IF StartsWith(TextOf(item, "PK"), CategoryPrefix)
  THEN Contains(TextOf(item, "PK"), Lower(c.str))
  ELSE StartsWith(TextOf(item, "PK"), GearboxPrefix) =>
         \/ Contains(TextOf(item, "application_type"), Lower(c.str))
         \/ Contains(TextOf(item, "gearbox_type"), Lower(c.str))

CategoryFiltered(items, filters, result, c) ==
  /\ \A n \in 1..Len(items) : Kept(result, items[n]) => InCategory(items[n], c)
  /\ Len(filters) = 1 =>
       \A n \in 1..Len(items) : InCategory(items[n], c) => Kept(result, items[n])

\* C24: with a category filter c, letter case apart, a category# item is
\* retained iff its partition key contains c, a gearbox# item iff its
\* application_type or its gearbox_type contains c, and an item of neither
\* kind is never excluded by this filter
C24_CategoryByKind ==
  \A i \in 1..NumInv :
    (Filtered(i) /\ ValueOf(inv[i].event.dict, "category") # <<>>) =>
      CategoryFiltered(inv[i].call.items, inv[i].event.dict, inv[i].resp,
                       ValueOf(inv[i].event.dict, "category")[1])

\* "AUTO" alone has kept, of five items, the category auto, the gearbox of
\* application_type auto and the item of neither kind
C24_Witness ==
  /\ Filtered(1) /\ inv[1].event.dict = << <<"category", PyStr(<<"A", "U", "T", "O">>)>> >>
  /\ Len(inv[1].call.items) = 5 /\ Len(inv[1].resp.list) = 3
  /\ \E n \in 1..3 : ~StartsWith(TextOf(inv[1].resp.list[n], "PK"), CategoryPrefix)
                     /\ ~StartsWith(TextOf(inv[1].resp.list[n], "PK"), GearboxPrefix)


(***************************************************************************)
(* Properties of the success responses and of the frame (Spec)             *)
(***************************************************************************)
\* a success response: 200 or 201
IsSuccess(resp) == resp.statusCode \in {200, 201}

\* the header value names every one of the three request headers
Covers(value) ==
  /\ IsStr(value)
  /\ \A name \in {"Content-Type", "Authorization", "x-api-key"} :
       \E n \in 1..Len(value.str) : value.str[n] = name

CorsComplete(headers) ==
  /\ DictGet(headers, "Content-Type", PyNone) = PyStr(<<"application/json">>)
  /\ DictGet(headers, "Access-Control-Allow-Origin", PyNone) = PyStr(<<"*">>)
  /\ Covers(DictGet(headers, "Access-Control-Allow-Headers", PyNone))

\* C25: every success response, the 200 of a GET, the 201 of a create and the
\* 200 of an update and of a delete, carries Content-Type application/json,
\* Access-Control-Allow-Origin "*" and an Access-Control-Allow-Headers value
\* covering Content-Type, Authorization and x-api-key
C25_SuccessCarriesCors ==
  \A i \in 1..NumInv :
    (Done(i) /\ IsSuccess(inv[i].resp)) => CorsComplete(inv[i].resp.headers)


(***************************************************************************)
(* _convert_dynamodb_item on its own (SpecConvert)                         *)
(***************************************************************************)
\* the plain values that are not containers
PlainAtoms ==
  {PyStr(<<>>), PyStr(<<"t", "e", "s", "t">>), PyStr(<<"1", ".", "5">>),
   PyStr(<<"N">>), PyInt(0), PyInt(5), PyInt(0 - 12), PyInt(123),
   PyBool(TRUE), PyBool(FALSE), PyNone}

PlainFew == {PyStr(<<"t", "e", "s", "t">>), PyInt(42), PyBool(TRUE), PyNone}

\* lists and maps of plain values that are not containers
PlainContainers ==
  {PyList(<<>>), PyDict(<<>>)}
  \cup {PyList(<<a>>) : a \in PlainAtoms}
  \cup {PyList(<<ab[1], ab[2]>>) : ab \in PlainFew \X PlainFew}
  \cup {PyDict(<< <<"name", a>> >>) : a \in PlainAtoms}
  \cup {PyDict(<< <<"S", ab[1]>>, <<"count", ab[2]>> >>) : ab \in PlainFew \X PlainFew}

\* plain values: strings, integers, booleans, None, and lists and maps of
\* these, nested twice at most
PlainValues ==
  PlainAtoms \cup PlainContainers
  \cup {PyList(<<c>>) : c \in PlainContainers}
  \cup {PyDict(<< <<"M", c>>, <<"count", PyInt(5)>> >>) : c \in PlainContainers}

\* the tagged form of a plain value
RECURSIVE TagWrap(_)
TagWrap(x) ==
  IF IsStr(x) THEN [S |-> x.str]
  ELSE IF IsBool(x) THEN [BOOL |-> x.bool]
  ELSE IF IsInt(x) THEN [N |-> IntStr(x.int)]
  ELSE IF IsNone(x) THEN [NULL |-> TRUE]
  ELSE IF IsList(x) THEN [L |-> [n \in 1..Len(x.list) |-> TagWrap(x.list[n])]]
  ELSE [M |-> [n \in 1..Len(x.dict) |-> <<x.dict[n][1], TagWrap(x.dict[n][2])>>]]

\* tagged values that wrap no plain value: numbers with a decimal point, text
\* that is no number, the set tags, and values without a recognized tag
OtherTagged ==
  {[N |-> <<"1", "2", "3", ".", "4", "5">>], [N |-> <<"2", ".", "5">>],
   [N |-> <<"0", ".", "0">>], [N |-> <<"-", "7", ".", "2", "5">>],
   [N |-> <<"a", "b", "c">>], [N |-> <<"1", ".", "x">>],
   [SS |-> <<<<"a">>, <<"b">>>>], [NS |-> <<<<"1">>, <<"2", ".", "5">>>>],
   [BS |-> <<<<"a">>>>], [L |-> <<[N |-> <<"2", ".", "5">>], [UNKNOWN |-> <<"v">>]>>],
   [UNKNOWN |-> <<"v", "a", "l", "u", "e">>], [B |-> <<"a">>], [str |-> <<"a">>]}

TaggedValues == {TagWrap(x) : x \in PlainValues} \cup OtherTagged

InitConvert ==
  /\ table = {}
  /\ inv = [i \in 1..NumInv |-> Idle]

\* one call of _convert_dynamodb_item(value)
Convert(i, value) ==
  /\ inv[i].pc = "idle"
  /\ inv' = [inv EXCEPT ![i] =
               [pc |-> "done", event |-> PyNone,
                call |-> [kind |-> "_convert_dynamodb_item", value |-> value],
                env |-> NoEnv, resp |-> _convert_dynamodb_item(value)]]
  /\ UNCHANGED table

NextConvert ==
  \/ \E value \in TaggedValues : Convert(1, value)
  \/ Deliver(1)

SpecConvert == InitConvert /\ [][NextConvert]_vars

(***************************************************************************)
(* Properties of _convert_dynamodb_item (SpecConvert)                      *)
(***************************************************************************)
Converted(i) == Done(i) /\ inv[i].call.kind = "_convert_dynamodb_item"

HasPoint(num_str) == \E n \in 1..Len(num_str) : num_str[n] = "."

RecognizedTags == {"S", "N", "BOOL", "NULL", "L", "M", "SS", "NS", "BS"}

\* C26: converting the tagged form of a plain value (strings, integers,
\* booleans, None, lists and maps of these) gives the plain value back; the
\* text of a number tag that parses becomes an integer when it has no decimal
\* point and a float when it has one, with the value the text writes; a value
\* without a recognized tag is returned as it is
C26_ConvertInvertsTagWrap ==
  \A i \in 1..NumInv : Converted(i) =>
    /\ \A x \in PlainValues :
         inv[i].call.value = TagWrap(x) => inv[i].resp = x
    /\ ("N" \in DOMAIN inv[i].call.value /\ ~IsRaised(inv[i].resp)) =>
         IF HasPoint(inv[i].call.value.N)
         THEN /\ IsFloat(inv[i].resp)
              /\ FloatStr(inv[i].resp.float) = inv[i].call.value.N
         ELSE /\ IsInt(inv[i].resp)
              /\ IntStr(inv[i].resp.int) = inv[i].call.value.N
    /\ DOMAIN inv[i].call.value \cap RecognizedTags = {} =>
         inv[i].resp = inv[i].call.value

\* a list holding a map with a string and an integer went there and back
C26_Witness ==
  \E i \in 1..NumInv :
    /\ Converted(i)
    /\ inv[i].call.value =
         TagWrap(PyList(<<PyDict(<< <<"S", PyStr(<<"t", "e", "s", "t">>)>>,
                                    <<"count", PyInt(42)>> >>)>>))
    /\ inv[i].resp.list[1].dict[2][2] = PyInt(42)

(***************************************************************************)
(* Properties of the POST operations (Spec)                                *)
(***************************************************************************)
\* the event with its body replaced
WithBody(ev, body) ==
  PyDict([n \in 1..Len(ev.dict) |->
            IF ev.dict[n][1] = "body" THEN <<"body", body>> ELSE ev.dict[n]])

WrittenFields(updates) ==
  SelectSeq(DictKeys(updates), LAMBDA field : field \notin {"PK", "SK", "gearbox_id"})

\* C28: the updated_fields of the 200 response of an update lists, in the
\* order of the caller, the fields of updates that the update wrote: a
\* protected field (PK, SK, gearbox_id) is not listed
C28_UpdatedFieldsAreWritten ==
  \A i \in 1..NumInv :
    (Done(i) /\ IsUpdate(inv[i].event) /\ Status(i) = 200)
    => Field(inv[i].resp, "updated_fields")
         = PyList([n \in 1..Len(WrittenFields(UpdatesOf(inv[i].event))) |->
                     PyStr(<<WrittenFields(UpdatesOf(inv[i].event))[n]>>)])


\* a POST that names one of the three operations on a gearbox
IsWrite(ev) == PostOf(ev, <<"create">>) \/ IsUpdate(ev) \/ IsDelete(ev)

\* the partition key "gearbox#X" of the gearbox a write names
TargetPK(ev) ==
  GearboxKey(IF PostOf(ev, <<"create">>) THEN CreateId(ev) ELSE TargetId(ev)).PK

Others(t, pk) == {it \in t : it.PK # pk}

\* the fields in which two items differ
Differing(old, new) ==
  {a \in DOMAIN old \cup DOMAIN new :
     IF a \in DOMAIN old /\ a \in DOMAIN new THEN old[a] # new[a] ELSE TRUE}

\* what the request ev, answered with resp, may have changed in the table
Frame(ev, resp, before, after) ==
  /\ ~IsWrite(ev) => after = before
  /\ IsWrite(ev) => Others(after, TargetPK(ev)) = Others(before, TargetPK(ev))
  /\ (IsUpdate(ev) /\ resp.statusCode = 200) =>
       \E old \in before, new \in after :
         /\ old.PK = TargetPK(ev) /\ new.PK = TargetPK(ev)
         /\ Differing(old, new) \subseteq FreeKeys(UpdatesOf(ev)) \cup {"updated_at"}
  /\ (IsDelete(ev) /\ resp.statusCode = 200) =>
       /\ after = Others(before, TargetPK(ev))
       /\ Cardinality(before \ after) = 1

\* C29: a create, an update or a delete of gearbox X changes at most the item
\* "gearbox#X" and leaves every other item, gearbox or category, as it was; a
\* successful update changes of that item only the fields of updates that are
\* not protected and updated_at; a successful delete removes that one item
\* and nothing else; a GET, and every other request, leaves the table as it was
C29_OnlyTargetChanges ==
  [][\A i \in 1..NumInv :
       Answered(i) => Frame(inv'[i].event, inv'[i].resp, table, table')
  ]_vars

\* gearbox#g1 has been deleted from a table that still holds another gearbox
\* and a category
C29_Witness ==
  \E i \in 1..NumInv :
    /\ Done(i) /\ IsDelete(inv[i].event) /\ Status(i) = 200
    /\ TargetId(inv[i].event) = PyStr(Id1)
    /\ ~Holds(table, PyStr(Id1))
    /\ \E it \in table : IsGearboxItem(it)
    /\ \E it \in table : ~IsGearboxItem(it)


\* an event of the documented shape: a mapping whose headers are a mapping of
\* strings or absent, whose body is a string, an object or null, and whose
\* queryStringParameters are a mapping or null
IsDocumented(ev) ==
  /\ IsDict(ev)
  /\ HeadersDocumented(ev)
  /\ LET body == DictGet(ev, "body", PyNone) IN
       IsStr(body) \/ IsDict(body) \/ IsNone(body)
  /\ LET query == DictGet(ev, "queryStringParameters", PyNone) IN
       IsDict(query) \/ IsNone(query)

\* C30: while the store raises no fault, an event of the documented shape is
\* never answered 500: a body that is JSON but no object, and a create whose
\* gearbox is no object, get a 4xx status
C30_ClientDefectsNever500 ==
  \A i \in 1..NumInv :
    (Done(i) /\ inv[i].env.fault = "none" /\ IsDocumented(inv[i].event))
    => Status(i) < 500

====
